---- MODULE Spec2Model ----
(***************************************************************************)
(* A model of ericchiang/got, package imports.                             *)
(*                                                                         *)
(*   Spec        the metadata resolver, resolver.fetchImportMeta           *)
(*               (imports.go): NCalls goroutines call it concurrently on   *)
(*               one resolver.                                             *)
(*   SpecGodeps  the manifest parser, parseGodeps: the main goroutine and  *)
(*               one errgroup task per distinct revision.                  *)
(*   SpecKey     cacheKey, on the strings of a small alphabet.             *)
(*   SpecIgnore  ignoreFile, on file names made of a stem and an ending.   *)
(*   SpecCopy    copyDir: the walk of a source tree into a destination,    *)
(*               and a second call with the same arguments.                *)
(*   SpecGoGet   the repository cache (cache.go) and goGet: NGets calls    *)
(*               of goGet and cache.file run concurrently on one cache.    *)
(*   SpecLive    the resolver with fair scheduling of its goroutines, on   *)
(*               two paths.                                                *)
(*   SpecParse   parseImportMeta, on the token sequences of a page.        *)
(*   SpecStatic  importMeta and the templates of vcsList, on paths made    *)
(*               of a host and up to MaxSegs segments.                     *)
(*   SpecLoad    loadImports, on the import declarations of a file.        *)
(*                                                                         *)
(* A module path is a sequence of its "/"-separated segments; remotes,     *)
(* cache names and file names are strings.                                 *)
(***************************************************************************)
EXTENDS Naturals, Sequences, FiniteSets

VARIABLES
    \* ---- resolver (imports.go:71-90) ----
    mu,          \* resolver.mu: 0 when free, else the call holding it
    inflight,    \* resolver.inflight: the list of entries, each named by its creator
    results,     \* resolver.results: the list of cached pkgMeta
    done,        \* resolverInflight.done of the entry created by a call: closed or not
    infRes,      \* resolverInflight.meta / .err of the entry created by a call
    \* ---- one goroutine per call of resolver.fetchImportMeta ----
    pc,          \* where the call is
    pkg,         \* its pkg argument, which is also the key of the entry it creates
    ctxDone,     \* whether its ctx has been cancelled
    joined,      \* the entry it waits on (0: none)
    ret,         \* what it returned
    via,         \* how it was served: "cache", "join" or "fetch"
    doneBefore,  \* history: the calls that had returned when this one started
    ctxFirst,    \* history: ctx was cancelled while the joined entry was not yet done
    \* ---- parseGodeps ----
    validJSON,   \* whether the bytes decode
    deps,        \* deps.Deps, the decoded records
    gpc,         \* where the main goroutine is
    gi,          \* the index of the validation loop
    toLookup,    \* rev -> importPath (NoPath: no entry)
    task,        \* the state of the task started for a revision
    tres,        \* what lookupPkgMeta returned to that task
    packages,    \* the shared packages slice
    groupErr,    \* the errgroup's first error
    gctxDone,    \* whether the errgroup's ctx is cancelled
    gret,        \* what parseGodeps returned
    lookups,     \* history: the import paths handed to lookupPkgMeta
    errOrder,    \* history: the tasks that returned an error, in order
    \* ---- cacheKey ----
    kremote,     \* the remote handed to cacheKey
    kkey,        \* what cacheKey returned
    kpc,         \* whether cacheKey has returned
    \* ---- ignoreFile ----
    iname,       \* the file name handed to ignoreFile
    iskip,       \* what ignoreFile returned
    ipc,         \* whether ignoreFile has returned
    \* ---- copyDir ----
    srcTree,     \* the tree below from
    dst,         \* the tree below to
    wtodo,       \* the paths filepath.Walk has still to visit, in order
    wpc,         \* where the walk is
    werr,        \* the error copyDir returned
    wrun,        \* the number of the call of copyDir
    dst0,        \* history: the destination when the call started
    wmade,       \* history: the paths the call created
    wmade1,      \* history: the paths the first call created
    \* ---- the repository cache (cache.go) and the calls of goGet and cache.file ----
    dirs,        \* the names whose directory exists under cache.dirname
    lockHolder,  \* per name, the call that holds the lock of name + ".lock" (0: free)
    repoLocal,   \* the names whose directory holds a local copy of a repository
    wcRev,       \* per name, the revision the working copy is at
    cpc,         \* where the call is
    ckind,       \* "goGet" or "file"
    cname,       \* the name handed to cache.dir or cache.file
    cver,        \* goGet's version argument
    cerr,        \* the error the call returned
    dest,        \* per call, the revisions whose files were copied into its destination
    ops,         \* history: what the call did to the cache, the repository and the destination
    cBefore,     \* history: the calls that had returned when this one started
    \* ---- the calls of parseImportMeta, importMeta and loadImports ----
    farg,        \* the argument of the call
    fres,        \* what the call returned
    fpc          \* "call" before the call, "done" after it

rvars == <<mu, inflight, results, done, infRes, pc, pkg, ctxDone, joined, ret, via, doneBefore,
           ctxFirst>>
gvars == <<validJSON, deps, gpc, gi, toLookup, task, tres, packages, groupErr, gctxDone,
           gret, lookups, errOrder>>
kvars == <<kremote, kkey, kpc>>
ivars == <<iname, iskip, ipc>>
wvars == <<srcTree, dst, wtodo, wpc, werr, wrun, dst0, wmade, wmade1>>
cvars == <<dirs, lockHolder, repoLocal, wcRev, cpc, ckind, cname, cver, cerr, dest, ops, cBefore>>
fvars == <<farg, fres, fpc>>
vars == <<rvars, gvars, kvars, ivars, wvars, cvars, fvars>>

----------------------------------------------------------------------------
(* Bounds *)

NCalls == 3
MaxDeps == 3
MaxKeyLen == 3
MaxEntries == 3
NGets == 2
MaxTokens == 3
MaxSegs == 3
MaxImports == 3

Calls == 1..NCalls

----------------------------------------------------------------------------
(* Module paths and strings.HasPrefix *)

NoPath == <<>>

PathR   == <<"github.com", "o", "r">>
PathRX  == <<"github.com", "o", "rx">>
PathM   == <<"example.org", "m">>
PathMP  == <<"example.org", "m", "p">>
PathMQ  == <<"example.org", "m", "q">>

\* the module paths the callers ask for
Paths == {PathR, PathRX, PathM, PathMP, PathMQ}

\* the roots a discovery page names
ServerRoots == {PathR, PathM, PathMP}

\* the pairs <<s, t>> of different segments with t a leading substring of s
SegPrefixPairs == {<<"rx", "r">>}

SegHasPrefix(s, t) == s = t \/ <<s, t>> \in SegPrefixPairs

\* strings.HasPrefix(s, prefix) on the "/"-joined strings: the segments before
\* prefix's last one are equal and its last one is a leading substring of s's
HasPrefix(s, prefix) ==
    \/ prefix = <<>>
    \/ /\ Len(prefix) <= Len(s)
       /\ \A i \in 1..(Len(prefix) - 1) : s[i] = prefix[i]
       /\ SegHasPrefix(s[Len(prefix)], prefix[Len(prefix)])

----------------------------------------------------------------------------
(* pkgMeta and the (meta, error) pairs the functions return *)

NilMeta == [Root |-> NoPath, VCS |-> "", Remote |-> NoPath]

\* the pkgMeta a discovery page yields for the root it names
ServerMeta(root) ==
    [Root |-> root, VCS |-> "git", Remote |-> <<"https:", "", "vcs.example.org">> \o root]

ServerMetas == {ServerMeta(r) : r \in ServerRoots}

Ok(m)  == [meta |-> m, err |-> ""]
Err(e) == [meta |-> NilMeta, err |-> e]

NoResult  == Err("unset")
FetchErr  == Err("getting go-get url")
CancelErr == Err("stopped waiting for inflight request")

IsOk(r) == r.err = ""

----------------------------------------------------------------------------
(* The static templates, vcsList and importMeta, imports.go:50-67 and 239-303 *)

Upper  == {"A", "B", "C", "D", "E", "F", "G", "H", "I", "J", "K", "L", "M",
           "N", "O", "P", "Q", "R", "S", "T", "U", "V", "W", "X", "Y", "Z"}
Lower  == {"a", "b", "c", "d", "e", "f", "g", "h", "i", "j", "k", "l", "m",
           "n", "o", "p", "q", "r", "s", "t", "u", "v", "w", "x", "y", "z"}
Digits == {"0", "1", "2", "3", "4", "5", "6", "7", "8", "9"}

\* the i-th character of a string
Char(s, i) == SubSeq(s, i, i)

\* strings.HasPrefix, strings.HasSuffix and strings.Contains on strings
StrHasPrefix(s, prefix) == Len(prefix) <= Len(s) /\ SubSeq(s, 1, Len(prefix)) = prefix
StrHasSuffix(s, suffix) ==
    Len(suffix) <= Len(s) /\ SubSeq(s, Len(s) - Len(suffix) + 1, Len(s)) = suffix
StrContains(s, substr) ==
    \E i \in 1..(Len(s) + 1) :
        i + Len(substr) - 1 <= Len(s) /\ SubSeq(s, i, i + Len(substr) - 1) = substr

\* the character classes of the templates
WordChars == Upper \cup Lower \cup Digits \cup {"_", ".", "-"}
HostChars == Lower \cup Digits \cup {"_", "-", "."}
LowerNum  == Lower \cup Digits

MinOf(S) == CHOOSE i \in S : \A j \in S : i <= j

\* every character of s is of the class
All(s, class) == \A i \in 1..Len(s) : Char(s, i) \in class

\* [A-Za-z0-9_.\-]+
Word(s) == s # "" /\ All(s, WordChars)

\* (/[A-Za-z0-9_.\-]+)*$ from segment number from on
Words(p, from) == \A i \in from..Len(p) : Word(p[i])

\* ~[A-Za-z0-9_.\-]+
Tilde(s) == Len(s) >= 2 /\ Char(s, 1) = "~" /\ All(SubSeq(s, 2, Len(s)), WordChars)

\* [a-z0-9\-]+(\.[a-z0-9\-]+)?
Project(s) ==
    /\ s # ""
    /\ \/ All(s, LowerNum \cup {"-"})
       \/ \E i \in 2..(Len(s) - 1) :
              /\ Char(s, i) = "."
              /\ All(SubSeq(s, 1, i - 1), LowerNum \cup {"-"})
              /\ All(SubSeq(s, i + 1, Len(s)), LowerNum \cup {"-"})

\* [a-z0-9_\-.]+\.googlecode\.com
GoogleCodeHost(h) ==
    /\ StrHasSuffix(h, ".googlecode.com")
    /\ Len(h) > Len(".googlecode.com")
    /\ All(SubSeq(h, 1, Len(h) - Len(".googlecode.com")), HostChars)

\* (/.*)?$ from segment number from on: "." matches every character but a
\* line feed
AnyRest(p, from) == \A i \in from..Len(p) : \A j \in 1..Len(p[i]) : Char(p[i], j) # "\n"

\* ([a-z0-9.\-]+\.)+[a-z0-9.\-]+(:[0-9]+)?
GenericHost(h) ==
    LET colons == {i \in 1..Len(h) : Char(h, i) = ":"}
        name == IF colons = {} THEN h ELSE SubSeq(h, 1, MinOf(colons) - 1)
        port == IF colons = {} THEN "" ELSE SubSeq(h, MinOf(colons) + 1, Len(h))
    IN /\ All(name, LowerNum \cup {".", "-"})
       /\ \E i \in 2..(Len(name) - 1) : Char(name, i) = "."
       /\ colons # {} => (port # "" /\ All(port, Digits))

\* \.(bzr|git|hg|svn) at the end of a segment
VcsExt(s) == \E x \in {".bzr", ".git", ".hg", ".svn"} : StrHasSuffix(s, x)

\* vcsList: the host and the vcs of each template; its pattern is rootpkg below
vcsList ==
    << [host |-> "github.com",          vcs |-> "git"],
       [host |-> "bitbucket.org",       vcs |-> ""],
       [host |-> "launchpad.net",       vcs |-> "bzr"],
       [host |-> "git.launchpad.net",   vcs |-> "git"],
       [host |-> "hub.jazz.net",        vcs |-> "git"],
       [host |-> "go.googlesource.com", vcs |-> ""],
       [host |-> "code.google.com",     vcs |-> "git"],
       [host |-> "",                    vcs |-> "svc"],
       [host |-> "",                    vcs |-> ""],
       [host |-> "",                    vcs |-> ""] >>

\* v.regex.FindStringSubmatch(pkg) for the i-th template: the number of
\* segments of the rootpkg group m[1], 0 when the pattern does not match
rootpkg(i, p) ==
    IF Len(p) < 2 THEN 0
    ELSE CASE i = 1 ->
              IF p[1] = "github.com" /\ Len(p) >= 3 /\ Words(p, 2) THEN 3 ELSE 0
           [] i = 2 ->
              IF p[1] = "bitbucket.org" /\ Len(p) >= 3 /\ Words(p, 2) THEN 3 ELSE 0
           [] i = 3 ->
              IF p[1] # "launchpad.net" THEN 0
              ELSE IF Words(p, 2) THEN (IF Len(p) >= 3 THEN 3 ELSE 2)
              ELSE IF /\ Len(p) >= 4 /\ Tilde(p[2])
                      /\ (p[3] = "+junk" \/ Word(p[3]))
                      /\ Words(p, 4)
                   THEN 4 ELSE 0
           [] i = 4 ->
              IF /\ p[1] = "git.launchpad.net"
                 /\ \/ Len(p) = 2 /\ Word(p[2])
                    \/ /\ Len(p) = 4 /\ Tilde(p[2])
                       /\ (p[3] = "+git" \/ Word(p[3]))
                       /\ Word(p[4])
              THEN Len(p) ELSE 0
           [] i = 5 ->
              IF /\ p[1] = "hub.jazz.net" /\ Len(p) >= 4
                 /\ p[2] = "git"
                 /\ p[3] # "" /\ All(p[3], LowerNum)
                 /\ Words(p, 4)
              THEN 4 ELSE 0
           [] i = 6 ->
              IF /\ p[1] = "go.googlesource.com"
                 /\ Word(p[2])
                 /\ (Len(p) = 2 \/ (Len(p) = 3 /\ p[3] = ""))
              THEN Len(p) ELSE 0
           [] i = 7 ->
              IF /\ p[1] = "code.google.com" /\ Len(p) >= 3
                 /\ p[2] \in {"p", "r"}
                 /\ Project(p[3])
                 /\ Words(p, 4)
              THEN 3 ELSE 0
           [] i = 8 ->
              IF GoogleCodeHost(p[1]) /\ p[2] = "svn" /\ AnyRest(p, 3) THEN Len(p) ELSE 0
           [] i = 9 ->
              IF GoogleCodeHost(p[1]) /\ p[2] \in {"git", "hg"} /\ AnyRest(p, 3) THEN 2 ELSE 0
           [] OTHER ->
              LET ks == {k \in 2..Len(p) :
                            /\ VcsExt(p[k])
                            /\ \A j \in 2..k : All(p[j], WordChars)
                            /\ Words(p, k + 1)}
              IN IF GenericHost(p[1]) /\ ks # {} THEN MinOf(ks) ELSE 0

\* the pkgMeta of lines 59-63 for a root of n segments and the i-th template
StaticMeta(i, p, n) ==
    [Root |-> SubSeq(p, 1, n), VCS |-> vcsList[i].vcs,
     Remote |-> <<"https:", "">> \o SubSeq(p, 1, n)]

\* mutant of importMetaFrom: the templates are tried from the last to the first
RECURSIVE importMetaBackwards(_, _)
importMetaBackwards(i, p) ==
    LET k == Len(vcsList) + 1 - i
    IN IF i > Len(vcsList) THEN Err("no match")
       ELSE IF rootpkg(k, p) # 0 THEN Ok(StaticMeta(k, p, rootpkg(k, p)))
       ELSE importMetaBackwards(i + 1, p)

\* the loop of importMeta from the i-th template on
RECURSIVE importMetaFrom(_, _)
importMetaFrom(i, p) ==
    IF i > Len(vcsList) THEN Err("no match")
    ELSE IF rootpkg(i, p) # 0 THEN Ok(StaticMeta(i, p, rootpkg(i, p)))
    ELSE importMetaFrom(i + 1, p)

\* importMeta(pkg), pkg being the sequence of its "/"-separated segments
importMeta(p) == importMetaFrom(1, p)

----------------------------------------------------------------------------
(* resolver.fetchImportMeta, imports.go:92-153 *)

\* mutant of CacheHit: only a result whose Root is the whole path serves it
CacheHitExact(p) ==
    LET hits == {i \in 1..Len(results) : results[i].Root = p}
    IN IF hits = {} THEN 0 ELSE CHOOSE i \in hits : \A j \in hits : i <= j

\* the index of the first cached result whose Root is a prefix of p (0: none)
CacheHit(p) ==
    LET hits == {i \in 1..Len(results) : HasPrefix(p, results[i].Root)}
    IN IF hits = {} THEN 0 ELSE CHOOSE i \in hits : \A j \in hits : i <= j

\* the index of the first inflight entry that can serve p (0: none)
InflightHit(p) ==
    LET hits == {i \in 1..Len(inflight) :
                    HasPrefix(p, pkg[inflight[i]]) \/ HasPrefix(pkg[inflight[i]], p)}
    IN IF hits = {} THEN 0 ELSE CHOOSE i \in hits : \A j \in hits : i <= j

\* mutant of RemoveInflight: the entry is left in the list
RemoveInflightKeep(list, p) == list

\* the entries whose pkg is not p, in order
RECURSIVE RemoveInflight(_, _)
RemoveInflight(list, p) ==
    IF list = <<>> THEN <<>>
    ELSE IF pkg[Head(list)] = p THEN RemoveInflight(Tail(list), p)
         ELSE <<Head(list)>> \o RemoveInflight(Tail(list), p)

\* a goroutine calls r.fetchImportMeta(ctx, p); the calls are numbered in the
\* order in which they start
Start(c, p) ==
    /\ pc[c] = "idle"
    /\ \A d \in Calls : d < c => pc[d] # "idle"
    /\ pc' = [pc EXCEPT ![c] = "lock"]
    /\ pkg' = [pkg EXCEPT ![c] = p]
    /\ doneBefore' = [doneBefore EXCEPT ![c] = {d \in Calls : pc[d] = "done"}]
    /\ UNCHANGED <<mu, inflight, results, done, infRes, ctxDone, joined, ret, via, ctxFirst>>

\* mutant of Cancel: cancelling a joined call also cancels the ctx of the call
\* that makes the fetch
CancelJoinedToo(c) ==
    /\ pc[c] \in {"select", "fetch"}
    /\ ~ctxDone[c]
    /\ ctxDone' = [d \in Calls |-> ctxDone[d] \/ d = c \/ (pc[c] = "select" /\ d = joined[c])]
    /\ ctxFirst' = [ctxFirst EXCEPT ![c] = pc[c] = "select" /\ ~done[joined[c]]]
    /\ UNCHANGED <<mu, inflight, results, done, infRes, pc, pkg, joined, ret, via, doneBefore>>

\* the caller cancels the call's ctx; the call reads ctx only in the select of
\* line 115 and in the request of line 130, so only a cancellation that comes
\* before one of them is told apart
Cancel(c) ==
    /\ pc[c] \in {"select", "fetch"}
    /\ ~ctxDone[c]
    /\ ctxDone' = [ctxDone EXCEPT ![c] = TRUE]
    /\ ctxFirst' = [ctxFirst EXCEPT ![c] = pc[c] = "select" /\ ~done[joined[c]]]
    /\ UNCHANGED <<mu, inflight, results, done, infRes, pc, pkg, joined, ret, via, doneBefore>>

\* r.mu.Lock(), line 93
Lock(c) ==
    /\ pc[c] = "lock"
    /\ mu = 0
    /\ mu' = c
    /\ pc' = [pc EXCEPT ![c] = "scan"]
    /\ UNCHANGED <<inflight, results, done, infRes, pkg, ctxDone, joined, ret, via, doneBefore, ctxFirst>>

\* mutant of ScanCache: the last result whose Root is a prefix of the path
\* serves the call
ScanCacheLast(c) ==
    /\ pc[c] = "scan"
    /\ mu = c
    /\ CacheHit(pkg[c]) # 0
    /\ mu' = 0
    /\ ret' = [ret EXCEPT ![c] =
                 Ok(results[CHOOSE i \in 1..Len(results) :
                               /\ HasPrefix(pkg[c], results[i].Root)
                               /\ \A j \in 1..Len(results) :
                                     HasPrefix(pkg[c], results[j].Root) => j <= i])]
    /\ via' = [via EXCEPT ![c] = "cache"]
    /\ pc' = [pc EXCEPT ![c] = "done"]
    /\ UNCHANGED <<inflight, results, done, infRes, pkg, ctxDone, joined, doneBefore, ctxFirst>>

\* lines 95-104: a cached result serves the call
ScanCache(c) ==
    /\ pc[c] = "scan"
    /\ mu = c
    /\ CacheHit(pkg[c]) # 0
    /\ mu' = 0
    /\ ret' = [ret EXCEPT ![c] = Ok(results[CacheHit(pkg[c])])]
    /\ via' = [via EXCEPT ![c] = "cache"]
    /\ pc' = [pc EXCEPT ![c] = "done"]
    /\ UNCHANGED <<inflight, results, done, infRes, pkg, ctxDone, joined, doneBefore, ctxFirst>>

\* mutant of ScanInflight: the call waits on the newest entry, whatever its key
ScanInflightLast(c) ==
    /\ pc[c] = "scan"
    /\ mu = c
    /\ CacheHit(pkg[c]) = 0
    /\ inflight # <<>>
    /\ mu' = 0
    /\ joined' = [joined EXCEPT ![c] = inflight[Len(inflight)]]
    /\ via' = [via EXCEPT ![c] = "join"]
    /\ pc' = [pc EXCEPT ![c] = "select"]
    /\ UNCHANGED <<inflight, results, done, infRes, pkg, ctxDone, ret, doneBefore, ctxFirst>>

\* lines 106-113: an inflight request serves the call
ScanInflight(c) ==
    /\ pc[c] = "scan"
    /\ mu = c
    /\ CacheHit(pkg[c]) = 0
    /\ InflightHit(pkg[c]) # 0
    /\ mu' = 0
    /\ joined' = [joined EXCEPT ![c] = inflight[InflightHit(pkg[c])]]
    /\ via' = [via EXCEPT ![c] = "join"]
    /\ pc' = [pc EXCEPT ![c] = "select"]
    /\ UNCHANGED <<inflight, results, done, infRes, pkg, ctxDone, ret, doneBefore, ctxFirst>>

\* mutant of Register: the call sets up its own request whatever the inflight
\* list holds
RegisterAlways(c) ==
    /\ pc[c] = "scan"
    /\ mu = c
    /\ CacheHit(pkg[c]) = 0
    /\ inflight' = Append(inflight, c)
    /\ mu' = 0
    /\ via' = [via EXCEPT ![c] = "fetch"]
    /\ pc' = [pc EXCEPT ![c] = "fetch"]
    /\ UNCHANGED <<results, done, infRes, pkg, ctxDone, joined, ret, doneBefore, ctxFirst>>

\* mutant of Register: the mutex is kept across the fetch
RegisterKeepLock(c) ==
    /\ pc[c] = "scan"
    /\ mu = c
    /\ CacheHit(pkg[c]) = 0
    /\ InflightHit(pkg[c]) = 0
    /\ inflight' = Append(inflight, c)
    /\ mu' = mu
    /\ via' = [via EXCEPT ![c] = "fetch"]
    /\ pc' = [pc EXCEPT ![c] = "fetch"]
    /\ UNCHANGED <<results, done, infRes, pkg, ctxDone, joined, ret, doneBefore, ctxFirst>>

\* mutant of Register: a path that a static template matches is answered from
\* the template, without a request
RegisterStatic(c) ==
    /\ pc[c] = "scan"
    /\ mu = c
    /\ CacheHit(pkg[c]) = 0
    /\ InflightHit(pkg[c]) = 0
    /\ mu' = 0
    /\ IF IsOk(importMeta(pkg[c]))
       THEN /\ ret' = [ret EXCEPT ![c] = importMeta(pkg[c])]
            /\ via' = [via EXCEPT ![c] = "static"]
            /\ pc' = [pc EXCEPT ![c] = "done"]
            /\ UNCHANGED inflight
       ELSE /\ inflight' = Append(inflight, c)
            /\ via' = [via EXCEPT ![c] = "fetch"]
            /\ pc' = [pc EXCEPT ![c] = "fetch"]
            /\ UNCHANGED ret
    /\ UNCHANGED <<results, done, infRes, pkg, ctxDone, joined, doneBefore, ctxFirst>>

\* lines 123-127: the call sets up its own inflight request
Register(c) ==
    /\ pc[c] = "scan"
    /\ mu = c
    /\ CacheHit(pkg[c]) = 0
    /\ InflightHit(pkg[c]) = 0
    /\ inflight' = Append(inflight, c)
    /\ mu' = 0
    /\ via' = [via EXCEPT ![c] = "fetch"]
    /\ pc' = [pc EXCEPT ![c] = "fetch"]
    /\ UNCHANGED <<results, done, infRes, pkg, ctxDone, joined, ret, doneBefore, ctxFirst>>

\* lines 115-117: the select takes the ctx.Done() case
SelectCtx(c) ==
    /\ pc[c] = "select"
    /\ ctxDone[c]
    /\ ret' = [ret EXCEPT ![c] = CancelErr]
    /\ pc' = [pc EXCEPT ![c] = "done"]
    /\ UNCHANGED <<mu, inflight, results, done, infRes, pkg, ctxDone, joined, via, doneBefore, ctxFirst>>

\* mutant of SelectDone: the entry is read without waiting for its done channel
SelectDoneNoWait(c) ==
    /\ pc[c] = "select"
    /\ ret' = [ret EXCEPT ![c] = infRes[joined[c]]]
    /\ pc' = [pc EXCEPT ![c] = "done"]
    /\ UNCHANGED <<mu, inflight, results, done, infRes, pkg, ctxDone, joined, via, doneBefore, ctxFirst>>

\* lines 118-119: the select takes the inflight.done case
SelectDone(c) ==
    /\ pc[c] = "select"
    /\ done[joined[c]]
    /\ ret' = [ret EXCEPT ![c] = infRes[joined[c]]]
    /\ pc' = [pc EXCEPT ![c] = "done"]
    /\ UNCHANGED <<mu, inflight, results, done, infRes, pkg, ctxDone, joined, via, doneBefore, ctxFirst>>

\* what the discovery fetch of line 130 (lines 155-182) can return: an error,
\* or the pkgMeta of whatever root the page names; a cancelled ctx fails the request
FetchOutcomes(c) ==
    IF ctxDone[c] THEN {FetchErr} ELSE {FetchErr} \cup {Ok(m) : m \in ServerMetas}

\* line 130
Fetch(c, out) ==
    /\ pc[c] = "fetch"
    /\ out \in FetchOutcomes(c)
    /\ infRes' = [infRes EXCEPT ![c] = out]
    /\ pc' = [pc EXCEPT ![c] = "close"]
    /\ UNCHANGED <<mu, inflight, results, done, pkg, ctxDone, joined, ret, via, doneBefore, ctxFirst>>

\* mutant of Close: the done channel is left open
CloseNoSignal(c) ==
    /\ pc[c] = "close"
    /\ done' = done
    /\ pc' = [pc EXCEPT ![c] = "relock"]
    /\ UNCHANGED <<mu, inflight, results, infRes, pkg, ctxDone, joined, ret, via, doneBefore, ctxFirst>>

\* line 133: close(done)
Close(c) ==
    /\ pc[c] = "close"
    /\ done' = [done EXCEPT ![c] = TRUE]
    /\ pc' = [pc EXCEPT ![c] = "relock"]
    /\ UNCHANGED <<mu, inflight, results, infRes, pkg, ctxDone, joined, ret, via, doneBefore, ctxFirst>>

\* line 136
Relock(c) ==
    /\ pc[c] = "relock"
    /\ mu = 0
    /\ mu' = c
    /\ pc' = [pc EXCEPT ![c] = "record"]
    /\ UNCHANGED <<inflight, results, done, infRes, pkg, ctxDone, joined, ret, via, doneBefore, ctxFirst>>

\* mutant of Record: the result is not recorded
RecordNoAppend(c) ==
    /\ pc[c] = "record"
    /\ mu = c
    /\ results' = results
    /\ inflight' = RemoveInflight(inflight, pkg[c])
    /\ mu' = 0
    /\ ret' = [ret EXCEPT ![c] = infRes[c]]
    /\ pc' = [pc EXCEPT ![c] = "done"]
    /\ UNCHANGED <<done, infRes, pkg, ctxDone, joined, via, doneBefore, ctxFirst>>

\* lines 137-152
Record(c) ==
    /\ pc[c] = "record"
    /\ mu = c
    /\ results' = IF IsOk(infRes[c]) THEN Append(results, infRes[c].meta) ELSE results
    /\ inflight' = RemoveInflight(inflight, pkg[c])
    /\ mu' = 0
    /\ ret' = [ret EXCEPT ![c] = infRes[c]]
    /\ pc' = [pc EXCEPT ![c] = "done"]
    /\ UNCHANGED <<done, infRes, pkg, ctxDone, joined, via, doneBefore, ctxFirst>>

RInit ==
    /\ mu = 0
    /\ inflight = <<>>
    /\ results = <<>>
    /\ done = [c \in Calls |-> FALSE]
    /\ infRes = [c \in Calls |-> NoResult]
    /\ pc = [c \in Calls |-> "idle"]
    /\ pkg = [c \in Calls |-> NoPath]
    /\ ctxDone = [c \in Calls |-> FALSE]
    /\ joined = [c \in Calls |-> 0]
    /\ ret = [c \in Calls |-> NoResult]
    /\ via = [c \in Calls |-> ""]
    /\ doneBefore = [c \in Calls |-> {}]
    /\ ctxFirst = [c \in Calls |-> FALSE]

----------------------------------------------------------------------------
(* parseGodeps *)

NoRev == ""
Revs == {"rev1", "rev2"}

\* the import paths a record can carry
DepPaths == {NoPath, PathR, PathMP, PathMQ}

Records == [ImportPath : DepPaths, Rev : Revs \cup {NoRev}]

\* the decoded manifests: up to MaxDeps records
Manifests == UNION {[1..k -> Records] : k \in 0..MaxDeps}

GErr(msg, p) == [msg |-> msg, pkg |-> p]
NilErr == GErr("", NoPath)

\* what lookupPkgMeta(ctx, p) can return: an error, or the pkgMeta of a
\* repository whose root is a prefix of p
LookupOutcomes(p) ==
    {Err("lookup failed")} \cup {Ok(ServerMeta(r)) : r \in {x \in ServerRoots : HasPrefix(p, x)}}

pinnedPackage(m, v) == [meta |-> m, version |-> v]

\* the revisions toLookup has a key for
LookupRevs == {r \in Revs : toLookup[r] # NoPath}

\* json.Unmarshal, lines 29-31
Unmarshal ==
    /\ gpc = "unmarshal"
    /\ IF validJSON
       THEN gpc' = "parse" /\ UNCHANGED gret
       ELSE /\ gpc' = "done"
            /\ gret' = [packages |-> <<>>, err |-> GErr("parsing godep file", NoPath)]
    /\ UNCHANGED <<validJSON, deps, gi, toLookup, task, tres, packages, groupErr, gctxDone,
                   lookups, errOrder>>

\* mutant of ParseRecord: the revision is tested before the import path
ParseRecordRevFirst ==
    /\ gpc = "parse"
    /\ gi <= Len(deps)
    /\ LET dep == deps[gi]
       IN IF dep.Rev = NoRev
          THEN /\ gpc' = "done"
               /\ gret' = [packages |-> <<>>,
                           err |-> GErr("didn't have an associated ref", dep.ImportPath)]
               /\ UNCHANGED <<gi, toLookup>>
          ELSE IF dep.ImportPath = NoPath
          THEN gi' = gi + 1 /\ UNCHANGED <<gpc, gret, toLookup>>
          ELSE /\ toLookup' = [toLookup EXCEPT ![dep.Rev] = dep.ImportPath]
               /\ gi' = gi + 1
               /\ UNCHANGED <<gpc, gret>>
    /\ UNCHANGED <<validJSON, deps, task, tres, packages, groupErr, gctxDone, lookups, errOrder>>

\* one turn of the loop of lines 49-57
ParseRecord ==
    /\ gpc = "parse"
    /\ gi <= Len(deps)
    /\ LET dep == deps[gi]
       IN IF dep.ImportPath = NoPath
          THEN gi' = gi + 1 /\ UNCHANGED <<gpc, gret, toLookup>>
          ELSE IF dep.Rev = NoRev
          THEN /\ gpc' = "done"
               /\ gret' = [packages |-> <<>>,
                           err |-> GErr("didn't have an associated ref", dep.ImportPath)]
               /\ UNCHANGED <<gi, toLookup>>
          ELSE /\ toLookup' = [toLookup EXCEPT ![dep.Rev] = dep.ImportPath]
               /\ gi' = gi + 1
               /\ UNCHANGED <<gpc, gret>>
    /\ UNCHANGED <<validJSON, deps, task, tres, packages, groupErr, gctxDone, lookups, errOrder>>

\* the loop of lines 49-57 ends; errgroup.WithContext, line 64
ParseEnd ==
    /\ gpc = "parse"
    /\ gi > Len(deps)
    /\ gpc' = "spawn"
    /\ UNCHANGED <<validJSON, deps, gi, toLookup, task, tres, packages, groupErr, gctxDone,
                   gret, lookups, errOrder>>

\* mutant of GoTask: one task per record, not one per key of toLookup
GoTaskPerRecord(rev) ==
    /\ gpc = "spawn"
    /\ rev \in LookupRevs
    /\ task[rev] \in {"none", "ok"}
    /\ Len(packages) < Len(deps)
    /\ task' = [task EXCEPT ![rev] = "run"]
    /\ UNCHANGED <<validJSON, deps, gpc, gi, toLookup, tres, packages, groupErr, gctxDone,
                   gret, lookups, errOrder>>

\* one turn of the loop of lines 66-81: group.Go starts the task of a revision
GoTask(rev) ==
    /\ gpc = "spawn"
    /\ rev \in LookupRevs
    /\ task[rev] = "none"
    /\ task' = [task EXCEPT ![rev] = "run"]
    /\ UNCHANGED <<validJSON, deps, gpc, gi, toLookup, tres, packages, groupErr, gctxDone,
                   gret, lookups, errOrder>>

\* line 70: the task calls lookupPkgMeta(ctx, importPath)
TaskLookup(rev) ==
    /\ task[rev] = "run"
    /\ lookups' = lookups \cup {toLookup[rev]}
    /\ task' = [task EXCEPT ![rev] = "looking"]
    /\ UNCHANGED <<validJSON, deps, gpc, gi, toLookup, tres, packages, groupErr, gctxDone,
                   gret, errOrder>>

\* line 70: lookupPkgMeta returns
TaskLookupReturn(rev, out) ==
    /\ task[rev] = "looking"
    /\ out \in LookupOutcomes(toLookup[rev])
    /\ tres' = [tres EXCEPT ![rev] = out]
    /\ task' = [task EXCEPT ![rev] = "returned"]
    /\ UNCHANGED <<validJSON, deps, gpc, gi, toLookup, packages, groupErr, gctxDone,
                   gret, lookups, errOrder>>

\* mutant of TaskFinish: the append is not under the mutex, and an append that
\* races with another overwrites its element
TaskFinishNoLock(rev) ==
    /\ task[rev] = "returned"
    /\ IF IsOk(tres[rev])
       THEN /\ packages' = IF packages = <<>>
                           THEN <<pinnedPackage(tres[rev].meta, rev)>>
                           ELSE [packages EXCEPT ![Len(packages)] = pinnedPackage(tres[rev].meta, rev)]
            /\ task' = [task EXCEPT ![rev] = "ok"]
            /\ UNCHANGED <<groupErr, gctxDone, errOrder>>
       ELSE /\ groupErr' = IF groupErr = NilErr
                           THEN GErr("lookup metatags for package", toLookup[rev])
                           ELSE groupErr
            /\ gctxDone' = TRUE
            /\ errOrder' = Append(errOrder, rev)
            /\ task' = [task EXCEPT ![rev] = "failed"]
            /\ UNCHANGED packages
    /\ UNCHANGED <<validJSON, deps, gpc, gi, toLookup, tres, gret, lookups>>

\* lines 71-79: the task appends its pinnedPackage under mu, or returns its
\* error to the group, which keeps the first error and cancels ctx
TaskFinish(rev) ==
    /\ task[rev] = "returned"
    /\ IF IsOk(tres[rev])
       THEN /\ packages' = Append(packages, pinnedPackage(tres[rev].meta, rev))
            /\ task' = [task EXCEPT ![rev] = "ok"]
            /\ UNCHANGED <<groupErr, gctxDone, errOrder>>
       ELSE /\ groupErr' = IF groupErr = NilErr
                           THEN GErr("lookup metatags for package", toLookup[rev])
                           ELSE groupErr
            /\ gctxDone' = TRUE
            /\ errOrder' = Append(errOrder, rev)
            /\ task' = [task EXCEPT ![rev] = "failed"]
            /\ UNCHANGED packages
    /\ UNCHANGED <<validJSON, deps, gpc, gi, toLookup, tres, gret, lookups>>

\* mutant of WaitReturn: the function returns without waiting for the tasks
WaitReturnNoWait ==
    /\ gpc = "spawn"
    /\ \A rev \in LookupRevs : task[rev] # "none"
    /\ gpc' = "done"
    /\ gctxDone' = TRUE
    /\ gret' = [packages |-> packages, err |-> groupErr]
    /\ UNCHANGED <<validJSON, deps, gi, toLookup, task, tres, packages, groupErr, lookups,
                   errOrder>>

\* line 83: after the loop of lines 66-81, group.Wait() returns once every task
\* has returned, and packages is read after it (the gc compiler evaluates the
\* call before it loads the variable)
WaitReturn ==
    /\ gpc = "spawn"
    /\ \A rev \in LookupRevs : task[rev] \in {"ok", "failed"}
    /\ gpc' = "done"
    /\ gctxDone' = TRUE
    /\ gret' = [packages |-> packages, err |-> groupErr]
    /\ UNCHANGED <<validJSON, deps, gi, toLookup, task, tres, packages, groupErr, lookups,
                   errOrder>>

\* parseGodeps has not been called
GIdle ==
    /\ validJSON = TRUE
    /\ deps = <<>>
    /\ gpc = "off"
    /\ gi = 1
    /\ toLookup = [r \in Revs |-> NoPath]
    /\ task = [r \in Revs |-> "none"]
    /\ tres = [r \in Revs |-> NoResult]
    /\ packages = <<>>
    /\ groupErr = NilErr
    /\ gctxDone = FALSE
    /\ gret = [packages |-> <<>>, err |-> NilErr]
    /\ lookups = {}
    /\ errOrder = <<>>

\* parseGodeps is called with some bytes
GInit ==
    /\ validJSON \in BOOLEAN
    /\ deps \in (IF validJSON THEN Manifests ELSE {<<>>})
    /\ gpc = "unmarshal"
    /\ gi = 1
    /\ toLookup = [r \in Revs |-> NoPath]
    /\ task = [r \in Revs |-> "none"]
    /\ tres = [r \in Revs |-> NoResult]
    /\ packages = <<>>
    /\ groupErr = NilErr
    /\ gctxDone = FALSE
    /\ gret = [packages |-> <<>>, err |-> NilErr]
    /\ lookups = {}
    /\ errOrder = <<>>

----------------------------------------------------------------------------
(* cacheKey *)

\* mutant of cacheKeyRune: a character that is not kept is dropped
cacheKeyRuneDrop(r) ==
    IF r \in Upper THEN r
    ELSE IF r \in Lower THEN r
    ELSE IF r \in Digits THEN r
    ELSE ""

\* the func literal handed to strings.Map
cacheKeyRune(r) ==
    IF r \in Upper THEN r
    ELSE IF r \in Lower THEN r
    ELSE IF r \in Digits THEN r
    ELSE "-"

\* strings.Map(f, remote): f applied to each character, in order
RECURSIVE cacheKey(_)
cacheKey(remote) ==
    IF remote = "" THEN ""
    ELSE cacheKeyRune(Head(remote)) \o cacheKey(Tail(remote))

\* the characters the remotes are made of
KeyAlphabet == {"a", "Z", "7", "/", ":", "-", "@", "."}

RECURSIVE StringsUpTo(_)
StringsUpTo(n) ==
    IF n = 0 THEN {""}
    ELSE LET shorter == StringsUpTo(n - 1)
         IN shorter \cup {s \o ch : s \in shorter, ch \in KeyAlphabet}

\* the remotes of TestCacheKey
TestRemotes == {"https://github.com/camlistore/go4", "git@github.com:foo/bar"}

KeyInputs == StringsUpTo(MaxKeyLen) \cup TestRemotes

\* cacheKey(remote) is called and returns
CallCacheKey ==
    /\ kpc = "call"
    /\ kkey' = cacheKey(kremote)
    /\ kpc' = "done"
    /\ UNCHANGED kremote

KIdle ==
    /\ kremote = ""
    /\ kkey = ""
    /\ kpc = "off"

KInit ==
    /\ kremote \in KeyInputs
    /\ kkey = ""
    /\ kpc = "call"

----------------------------------------------------------------------------
(* ignoreDir, ignoreFile and isLegalFile *)

UpperSeq == "ABCDEFGHIJKLMNOPQRSTUVWXYZ"
LowerSeq == "abcdefghijklmnopqrstuvwxyz"

\* unicode.ToLower on the ASCII characters
ToLowerRune(ch) ==
    IF ch \in Upper
    THEN Char(LowerSeq, CHOOSE i \in 1..Len(UpperSeq) : Char(UpperSeq, i) = ch)
    ELSE ch

\* strings.ToLower
RECURSIVE ToLower(_)
ToLower(s) == IF s = "" THEN "" ELSE ToLowerRune(Head(s)) \o ToLower(Tail(s))

\* strings.EqualFold on ASCII strings
EqualFold(s, t) == ToLower(s) = ToLower(t)

\* filepath.Ext of a name without separator: the suffix from the last "."
Ext(name) ==
    LET dots == {i \in 1..Len(name) : Char(name, i) = "."}
    IN IF dots = {} THEN ""
       ELSE SubSeq(name, CHOOSE i \in dots : \A j \in dots : j <= i, Len(name))

\* filepath.Base of a name without separator
Base(name) == IF name = "" THEN "." ELSE name

\* mutant of ignoreDir: the names that start with "_" are not ignored
ignoreDirNoUnderscore(dirname) ==
    IF dirname \in {"testdata", "vendor"} THEN TRUE
    ELSE StrHasPrefix(dirname, ".")

ignoreDir(dirname) ==
    IF dirname \in {"testdata", "vendor"} THEN TRUE
    ELSE IF StrHasPrefix(dirname, ".") THEN TRUE
    ELSE StrHasPrefix(dirname, "_")

versionFiles == <<"godeps.json", "glide.yaml">>

licenseFilePrefix == <<"licence", "license", "copying", "unlicense", "copyright", "copyleft">>

legalFileSubstring == <<"legal", "notice", "disclaimer", "patent", "third-party", "thirdparty">>

isLegalFile(path) ==
    LET lowerfile == ToLower(Base(path))
    IN IF \E i \in 1..Len(licenseFilePrefix) : StrHasPrefix(lowerfile, licenseFilePrefix[i])
       THEN TRUE
       ELSE IF \E i \in 1..Len(legalFileSubstring) : StrContains(lowerfile, legalFileSubstring[i])
       THEN TRUE
       ELSE FALSE

\* mutant of ignoreFile: the legal files are kept before the extension is looked at
ignoreFileLegalFirst(filename) ==
    IF \E i \in 1..Len(versionFiles) : EqualFold(filename, versionFiles[i]) THEN FALSE
    ELSE IF isLegalFile(filename) THEN FALSE
    ELSE IF Ext(filename) \in {".s", ".c"} THEN FALSE
    ELSE IF Ext(filename) = ".go" THEN StrHasSuffix(filename, "_test.go")
    ELSE TRUE

ignoreFile(filename) ==
    IF \E i \in 1..Len(versionFiles) : EqualFold(filename, versionFiles[i]) THEN FALSE
    ELSE IF Ext(filename) \in {".s", ".c"} THEN FALSE
    ELSE IF Ext(filename) = ".go" THEN StrHasSuffix(filename, "_test.go")
    ELSE ~isLegalFile(filename)

\* the file names ignoreFile is tried on: a stem and an ending
NameStems ==
    {"", "errors", "asm_darwin_386", "gccgo_c", "README", "x.tar", "godeps", "Godeps",
     "GLIDE", "glide", "LICENSE", "licence", "UNLICENSE", "Copying", "copyright",
     "CopyLeft", "alicense", "legal", "NOTICE", "my-patent", "Disclaimer", "THIRD-PARTY",
     "thirdparty", "third_party"}

NameEndings ==
    {"", ".go", "_test.go", ".s", ".c", ".S", ".GO", ".py", ".txt", ".json", ".JSON",
     ".yaml", ".go.orig", "_test.go.txt", "."}

\* the names of TestIgnoreFile
TestNames ==
    {"asm_darwin_386.s", "gccgo_c.c", "errors.go", "errors.py", "errors_test.go",
     "LICENSE", "LICENSE.txt"}

IgnoreInputs == ({s \o e : s \in NameStems, e \in NameEndings} \ {""}) \cup TestNames

\* ignoreFile(filename) is called and returns
CallIgnoreFile ==
    /\ ipc = "call"
    /\ iskip' = ignoreFile(iname)
    /\ ipc' = "done"
    /\ UNCHANGED iname

IIdle ==
    /\ iname = ""
    /\ iskip = FALSE
    /\ ipc = "off"

IInit ==
    /\ iname \in IgnoreInputs
    /\ iskip = FALSE
    /\ ipc = "call"

----------------------------------------------------------------------------
(* copyDir *)

\* the characters of the names below, in byte order
ByteOrder == "-.0123456789ABCDEFGHIJKLMNOPQRSTUVWXYZ_abcdefghijklmnopqrstuvwxyz"

Rank(ch) == CHOOSE i \in 1..Len(ByteOrder) : Char(ByteOrder, i) = ch

\* s < t as Go compares strings
RECURSIVE StrLess(_, _)
StrLess(s, t) ==
    IF t = "" THEN FALSE
    ELSE IF s = "" THEN TRUE
    ELSE IF Head(s) = Head(t) THEN StrLess(Tail(s), Tail(t))
    ELSE Rank(Head(s)) < Rank(Head(t))

\* mutant of WalkBefore: what a directory holds is visited before the directory
RECURSIVE WalkBeforeDeepFirst(_, _)
WalkBeforeDeepFirst(p, q) ==
    IF p = <<>> THEN FALSE
    ELSE IF q = <<>> THEN TRUE
    ELSE IF Head(p) = Head(q) THEN WalkBeforeDeepFirst(Tail(p), Tail(q))
    ELSE StrLess(Head(p), Head(q))

\* the order in which filepath.Walk visits two paths below its root: a
\* directory before what it holds, the names of one directory in sorted order
RECURSIVE WalkBefore(_, _)
WalkBefore(p, q) ==
    IF q = <<>> THEN FALSE
    ELSE IF p = <<>> THEN TRUE
    ELSE IF Head(p) = Head(q) THEN WalkBefore(Tail(p), Tail(q))
    ELSE StrLess(Head(p), Head(q))

\* the directory and file names of the source trees
DirNames == {"a", "vendor", "testdata", ".git", "_obj"}
CopyFileNames == {"hi.go", "hi_test.go", "LICENSE", "x.py"}

\* a tree is a set of entries <<path, kind>>, path being the names from the root
NameKinds == {<<n, "dir">> : n \in DirNames} \cup {<<n, "file">> : n \in CopyFileNames}

PathsOf(t) == {e[1] : e \in t}
DirsOf(t) == {e[1] : e \in {x \in t : x[2] = "dir"}}

\* the trees with one more entry, below the root or below a directory
Grow(t) ==
    {t \cup {<<Append(par, nk[1]), nk[2]>>} :
        par \in DirsOf(t) \cup {<<>>},
        nk \in NameKinds}

RECURSIVE TreesUpTo(_)
TreesUpTo(n) ==
    IF n = 0 THEN {{}}
    ELSE LET smaller == TreesUpTo(n - 1)
         IN smaller \cup
            {t \in UNION {Grow(s) : s \in smaller} : Cardinality(PathsOf(t)) = Cardinality(t)}

Trees == TreesUpTo(MaxEntries)

\* the paths of a tree in the order of the walk
RECURSIVE WalkOrder(_)
WalkOrder(ps) ==
    IF ps = {} THEN <<>>
    ELSE LET first == CHOOSE p \in ps : \A q \in ps \ {p} : WalkBefore(p, q)
         IN <<first>> \o WalkOrder(ps \ {first})

Parent(p) == SubSeq(p, 1, Len(p) - 1)
Name(p) == p[Len(p)]
IsBelow(p, d) == Len(p) > Len(d) /\ SubSeq(p, 1, Len(d)) = d

\* the destination is a set of entries <<path, kind, data>>; what was there
\* before copyDir has data "old", a copied file has data "copy"
DstPaths == {e[1] : e \in dst}
DstDirs == {e[1] : e \in {x \in dst : x[2] = "dir"}} \cup {<<>>}

\* the destinations a tree is copied into: empty, or holding one entry at a
\* path of the tree, below directories
Before(p, kind) ==
    {<<SubSeq(p, 1, i), "dir", "old">> : i \in 1..(Len(p) - 1)} \cup {<<p, kind, "old">>}

Destinations(t) == {{}} \cup {Before(p, kind) : p \in PathsOf(t), kind \in {"dir", "file"}}

KindOf(p) == (CHOOSE e \in srcTree : e[1] = p)[2]

\* filepath.Walk goes on after the visit of Head(wtodo)
WalkOn(rest) == IF rest = <<>> THEN "return" ELSE "walk"

\* the function handed to filepath.Walk, on the root: from == path
visitRoot ==
    /\ wpc = "walk"
    /\ Head(wtodo) = <<>>
    /\ wtodo' = Tail(wtodo)
    /\ wpc' = WalkOn(Tail(wtodo))
    /\ UNCHANGED <<srcTree, dst, dst0, werr, wrun, wmade, wmade1>>

\* the entries of a sequence of paths that are not below d, in order
RECURSIVE NotBelow(_, _)
NotBelow(todo, d) ==
    IF todo = <<>> THEN <<>>
    ELSE IF IsBelow(Head(todo), d) THEN NotBelow(Tail(todo), d)
         ELSE <<Head(todo)>> \o NotBelow(Tail(todo), d)

\* the function handed to filepath.Walk, on a directory: filepath.SkipDir for
\* an ignored name, else os.Mkdir(target, mode), which fails when the target
\* exists or its parent does not
visitDir ==
    /\ wpc = "walk"
    /\ Head(wtodo) # <<>>
    /\ KindOf(Head(wtodo)) = "dir"
    /\ LET p == Head(wtodo)
       IN IF ignoreDir(Name(p))
          THEN /\ wtodo' = NotBelow(Tail(wtodo), p)
               /\ wpc' = WalkOn(NotBelow(Tail(wtodo), p))
               /\ UNCHANGED <<dst, werr, wmade>>
          ELSE IF p \in DstPaths \/ Parent(p) \notin DstDirs
          THEN /\ werr' = "copying directory"
               /\ wpc' = "done"
               /\ UNCHANGED <<wtodo, dst, wmade>>
          ELSE /\ dst' = dst \cup {<<p, "dir", "">>}
               /\ wmade' = wmade \cup {p}
               /\ wtodo' = Tail(wtodo)
               /\ wpc' = WalkOn(Tail(wtodo))
               /\ UNCHANGED werr
    /\ UNCHANGED <<srcTree, dst0, wrun, wmade1>>

\* mutant of visitFile: the target is opened without os.O_EXCL
visitFileNoExcl ==
    /\ wpc = "walk"
    /\ Head(wtodo) # <<>>
    /\ KindOf(Head(wtodo)) = "file"
    /\ LET p == Head(wtodo)
       IN IF ignoreFile(Name(p))
          THEN /\ wtodo' = Tail(wtodo)
               /\ wpc' = WalkOn(Tail(wtodo))
               /\ UNCHANGED <<dst, werr, wmade>>
          ELSE IF p \in DstDirs \/ Parent(p) \notin DstDirs
          THEN /\ werr' = "creating copy of file"
               /\ wpc' = "done"
               /\ UNCHANGED <<wtodo, dst, wmade>>
          ELSE /\ dst' = {e \in dst : e[1] # p} \cup {<<p, "file", "copy">>}
               /\ wmade' = wmade \cup {p}
               /\ wtodo' = Tail(wtodo)
               /\ wpc' = WalkOn(Tail(wtodo))
               /\ UNCHANGED werr
    /\ UNCHANGED <<srcTree, dst0, wrun, wmade1>>

\* the function handed to filepath.Walk, on a file: nothing for an ignored
\* name, else the target is created with os.O_CREATE|os.O_EXCL, which fails
\* when it exists or its parent does not, and the contents are copied
visitFile ==
    /\ wpc = "walk"
    /\ Head(wtodo) # <<>>
    /\ KindOf(Head(wtodo)) = "file"
    /\ LET p == Head(wtodo)
       IN IF ignoreFile(Name(p))
          THEN /\ wtodo' = Tail(wtodo)
               /\ wpc' = WalkOn(Tail(wtodo))
               /\ UNCHANGED <<dst, werr, wmade>>
          ELSE IF p \in DstPaths \/ Parent(p) \notin DstDirs
          THEN /\ werr' = "creating copy of file"
               /\ wpc' = "done"
               /\ UNCHANGED <<wtodo, dst, wmade>>
          ELSE /\ dst' = dst \cup {<<p, "file", "copy">>}
               /\ wmade' = wmade \cup {p}
               /\ wtodo' = Tail(wtodo)
               /\ wpc' = WalkOn(Tail(wtodo))
               /\ UNCHANGED werr
    /\ UNCHANGED <<srcTree, dst0, wrun, wmade1>>

\* filepath.Walk has visited everything and returns nil
walkReturn ==
    /\ wpc = "return"
    /\ wpc' = "done"
    /\ UNCHANGED <<srcTree, dst, dst0, wtodo, werr, wrun, wmade, wmade1>>

\* copyDir(to, from) is called again with the same arguments
copyDirAgain ==
    /\ wpc = "done"
    /\ wrun = 1
    /\ wrun' = 2
    /\ dst0' = dst
    /\ wmade1' = wmade
    /\ wmade' = {}
    /\ werr' = ""
    /\ wtodo' = <<<<>>>> \o WalkOrder(PathsOf(srcTree))
    /\ wpc' = "walk"
    /\ UNCHANGED <<srcTree, dst>>

WIdle ==
    /\ srcTree = {}
    /\ dst = {}
    /\ dst0 = {}
    /\ wtodo = <<>>
    /\ wpc = "off"
    /\ werr = ""
    /\ wrun = 0
    /\ wmade = {}
    /\ wmade1 = {}

\* copyDir(to, from) is called on a source tree and a destination directory
WInit ==
    /\ srcTree \in Trees
    /\ dst \in Destinations(srcTree)
    /\ dst0 = dst
    /\ wtodo = <<<<>>>> \o WalkOrder(PathsOf(srcTree))
    /\ wpc = "walk"
    /\ werr = ""
    /\ wrun = 1
    /\ wmade = {}
    /\ wmade1 = {}

----------------------------------------------------------------------------
(* The repository cache, cache.go, and goGet *)

Gets == 1..NGets

\* the remotes of the pkgMeta handed to goGet; two of them have one cache key
Remotes == {"git@github.com:foo/bar", "git@github.com:foo-bar",
            "https://github.com/camlistore/go4"}

\* the names under cache.dirname
CacheNames == {cacheKey(r) : r \in Remotes}

\* the version arguments
GetVersions == {"", "v1", "v2"}

\* the revision a clone or a pull leaves the working copy at
HEAD == "HEAD"

\* what an operation of the vcs package, or a callback, can return
OpOutcomes == {"ok", "err"}

Did(g, op, out) == [ops EXCEPT ![g] = Append(@, <<op, out>>)]

CReturned == {h \in Gets : cpc[h] = "done"}

\* mutant of goGet: the version is not tested before c.dir is called
goGetNoVersionTest(g, remote, version) ==
    /\ cpc[g] = "idle"
    /\ \A h \in Gets : h < g => cpc[h] # "idle"
    /\ ckind' = [ckind EXCEPT ![g] = "goGet"]
    /\ cname' = [cname EXCEPT ![g] = cacheKey(remote)]
    /\ cver' = [cver EXCEPT ![g] = version]
    /\ cBefore' = [cBefore EXCEPT ![g] = CReturned]
    /\ cpc' = [cpc EXCEPT ![g] = "stat"]
    /\ UNCHANGED <<dirs, lockHolder, repoLocal, wcRev, cerr, dest, ops>>

\* goGet(c, meta, to, version) is called: the test of version and the call of
\* c.dir(cacheKey(meta.Remote), ...); the calls are numbered in the order in
\* which they start
goGet(g, remote, version) ==
    /\ cpc[g] = "idle"
    /\ \A h \in Gets : h < g => cpc[h] # "idle"
    /\ ckind' = [ckind EXCEPT ![g] = "goGet"]
    /\ cname' = [cname EXCEPT ![g] = cacheKey(remote)]
    /\ cver' = [cver EXCEPT ![g] = version]
    /\ cBefore' = [cBefore EXCEPT ![g] = CReturned]
    /\ IF version = ""
       THEN /\ cerr' = [cerr EXCEPT ![g] = "no version specified to checkout"]
            /\ cpc' = [cpc EXCEPT ![g] = "done"]
       ELSE /\ cpc' = [cpc EXCEPT ![g] = "stat"]
            /\ UNCHANGED cerr
    /\ UNCHANGED <<dirs, lockHolder, repoLocal, wcRev, dest, ops>>

\* c.file(name, f) is called
file(g, name) ==
    /\ cpc[g] = "idle"
    /\ \A h \in Gets : h < g => cpc[h] # "idle"
    /\ ckind' = [ckind EXCEPT ![g] = "file"]
    /\ cname' = [cname EXCEPT ![g] = name]
    /\ cBefore' = [cBefore EXCEPT ![g] = CReturned]
    /\ cpc' = [cpc EXCEPT ![g] = "lock"]
    /\ UNCHANGED <<dirs, lockHolder, repoLocal, wcRev, cver, cerr, dest, ops>>

\* cache.dir: os.Stat(target)
dirStat(g) ==
    /\ cpc[g] = "stat"
    /\ cpc' = [cpc EXCEPT ![g] = IF cname[g] \in dirs THEN "lock" ELSE "mkdir"]
    /\ ops' = Did(g, "stat", IF cname[g] \in dirs THEN "ok" ELSE "err")
    /\ UNCHANGED <<dirs, lockHolder, repoLocal, wcRev, ckind, cname, cver, cerr, dest, cBefore>>

\* cache.dir: os.Mkdir(target, 755), which fails when target exists
dirMkdir(g) ==
    /\ cpc[g] = "mkdir"
    /\ IF cname[g] \in dirs
       THEN /\ cerr' = [cerr EXCEPT ![g] = "cache creating directory"]
            /\ cpc' = [cpc EXCEPT ![g] = "done"]
            /\ ops' = Did(g, "mkdir", "err")
            /\ UNCHANGED dirs
       ELSE /\ dirs' = dirs \cup {cname[g]}
            /\ cpc' = [cpc EXCEPT ![g] = "lock"]
            /\ ops' = Did(g, "mkdir", "ok")
            /\ UNCHANGED cerr
    /\ UNCHANGED <<lockHolder, repoLocal, wcRev, ckind, cname, cver, dest, cBefore>>

\* lock.Lock(name): the advisory lock of a name is held by one caller at a time
LockFree(name) == lockHolder[name] = 0

\* mutant of dirLock: the lock is taken although another call holds it
dirLockNoWait(g) ==
    /\ cpc[g] = "lock"
    /\ ckind[g] = "goGet"
    /\ lockHolder' = [lockHolder EXCEPT ![cname[g]] = g]
    /\ cpc' = [cpc EXCEPT ![g] = "open"]
    /\ ops' = Did(g, "lock", "ok")
    /\ UNCHANGED <<dirs, repoLocal, wcRev, ckind, cname, cver, cerr, dest, cBefore>>

\* cache.dir: lock.Lock(target + ".lock"), and f(target) is entered
dirLock(g) ==
    /\ cpc[g] = "lock"
    /\ ckind[g] = "goGet"
    /\ LockFree(cname[g])
    /\ lockHolder' = [lockHolder EXCEPT ![cname[g]] = g]
    /\ cpc' = [cpc EXCEPT ![g] = "open"]
    /\ ops' = Did(g, "lock", "ok")
    /\ UNCHANGED <<dirs, repoLocal, wcRev, ckind, cname, cver, cerr, dest, cBefore>>

\* cache.file: lock.Lock(target + ".lock"), and f(target) is entered
fileLock(g) ==
    /\ cpc[g] = "lock"
    /\ ckind[g] = "file"
    /\ LockFree(cname[g])
    /\ lockHolder' = [lockHolder EXCEPT ![cname[g]] = g]
    /\ cpc' = [cpc EXCEPT ![g] = "fn"]
    /\ ops' = Did(g, "lock", "ok")
    /\ UNCHANGED <<dirs, repoLocal, wcRev, ckind, cname, cver, cerr, dest, cBefore>>

\* the callback handed to cache.file runs and returns nil or an error
fileFn(g, out) ==
    /\ cpc[g] = "fn"
    /\ out \in OpOutcomes
    /\ cerr' = [cerr EXCEPT ![g] = IF out = "ok" THEN "" ELSE "callback failed"]
    /\ cpc' = [cpc EXCEPT ![g] = "close"]
    /\ ops' = Did(g, "fn", out)
    /\ UNCHANGED <<dirs, lockHolder, repoLocal, wcRev, ckind, cname, cver, dest, cBefore>>

\* the callback of goGet: newRepo(meta, path) and repo.CheckLocal()
repoOpen(g, out) ==
    /\ cpc[g] = "open"
    /\ out \in OpOutcomes
    /\ IF out = "err"
       THEN /\ cerr' = [cerr EXCEPT ![g] = "creating repo"]
            /\ cpc' = [cpc EXCEPT ![g] = "close"]
            /\ ops' = Did(g, "newRepo", "err")
       ELSE /\ cpc' = [cpc EXCEPT ![g] = IF cname[g] \in repoLocal THEN "checkout" ELSE "get"]
            /\ ops' = Did(g, "checkLocal", IF cname[g] \in repoLocal THEN "yes" ELSE "no")
            /\ UNCHANGED cerr
    /\ UNCHANGED <<dirs, lockHolder, repoLocal, wcRev, ckind, cname, cver, dest, cBefore>>

\* mutant of repoGet: a failed clone is not returned, the checkout goes on
repoGetIgnoreErr(g, out) ==
    /\ cpc[g] = "get"
    /\ out \in OpOutcomes
    /\ IF out = "ok"
       THEN /\ repoLocal' = repoLocal \cup {cname[g]}
            /\ wcRev' = [wcRev EXCEPT ![cname[g]] = HEAD]
       ELSE UNCHANGED <<repoLocal, wcRev>>
    /\ cpc' = [cpc EXCEPT ![g] = "checkout"]
    /\ ops' = Did(g, "clone", out)
    /\ UNCHANGED <<dirs, lockHolder, ckind, cname, cver, cerr, dest, cBefore>>

\* repo.Get(): the clone, which leaves the working copy at the remote's HEAD
repoGet(g, out) ==
    /\ cpc[g] = "get"
    /\ out \in OpOutcomes
    /\ IF out = "ok"
       THEN /\ repoLocal' = repoLocal \cup {cname[g]}
            /\ wcRev' = [wcRev EXCEPT ![cname[g]] = HEAD]
            /\ cpc' = [cpc EXCEPT ![g] = "checkout"]
            /\ UNCHANGED cerr
       ELSE /\ cerr' = [cerr EXCEPT ![g] = "cloning repo"]
            /\ cpc' = [cpc EXCEPT ![g] = "close"]
            /\ UNCHANGED <<repoLocal, wcRev>>
    /\ ops' = Did(g, "clone", out)
    /\ UNCHANGED <<dirs, lockHolder, ckind, cname, cver, dest, cBefore>>

\* the first repo.UpdateVersion(version)
repoUpdateVersion(g, out) ==
    /\ cpc[g] = "checkout"
    /\ out \in OpOutcomes
    /\ IF out = "ok"
       THEN /\ wcRev' = [wcRev EXCEPT ![cname[g]] = cver[g]]
            /\ cpc' = [cpc EXCEPT ![g] = "copy"]
       ELSE /\ cpc' = [cpc EXCEPT ![g] = "update"]
            /\ UNCHANGED wcRev
    /\ ops' = Did(g, "checkout", out)
    /\ UNCHANGED <<dirs, lockHolder, repoLocal, ckind, cname, cver, cerr, dest, cBefore>>

\* repo.Update(): the pull, after which the working copy is where it was or at
\* the remote's HEAD
repoUpdate(g, out) ==
    /\ cpc[g] = "update"
    /\ out \in OpOutcomes
    /\ IF out = "ok"
       THEN /\ \E rev \in {wcRev[cname[g]], HEAD} : wcRev' = [wcRev EXCEPT ![cname[g]] = rev]
            /\ cpc' = [cpc EXCEPT ![g] = "recheckout"]
            /\ UNCHANGED cerr
       ELSE /\ cerr' = [cerr EXCEPT ![g] = "updating repo"]
            /\ cpc' = [cpc EXCEPT ![g] = "close"]
            /\ UNCHANGED wcRev
    /\ ops' = Did(g, "pull", out)
    /\ UNCHANGED <<dirs, lockHolder, repoLocal, ckind, cname, cver, dest, cBefore>>

\* mutant of repoUpdateVersionRetry: the copy is made also when the second
\* checkout fails
repoUpdateVersionRetryCopyAnyway(g, out) ==
    /\ cpc[g] = "recheckout"
    /\ out \in OpOutcomes
    /\ wcRev' = IF out = "ok" THEN [wcRev EXCEPT ![cname[g]] = cver[g]] ELSE wcRev
    /\ cpc' = [cpc EXCEPT ![g] = "copy"]
    /\ ops' = Did(g, "checkout", out)
    /\ UNCHANGED <<dirs, lockHolder, repoLocal, ckind, cname, cver, cerr, dest, cBefore>>

\* the second repo.UpdateVersion(version)
repoUpdateVersionRetry(g, out) ==
    /\ cpc[g] = "recheckout"
    /\ out \in OpOutcomes
    /\ IF out = "ok"
       THEN /\ wcRev' = [wcRev EXCEPT ![cname[g]] = cver[g]]
            /\ cpc' = [cpc EXCEPT ![g] = "copy"]
            /\ UNCHANGED cerr
       ELSE /\ cerr' = [cerr EXCEPT ![g] = "updating repo to revision"]
            /\ cpc' = [cpc EXCEPT ![g] = "close"]
            /\ UNCHANGED wcRev
    /\ ops' = Did(g, "checkout", out)
    /\ UNCHANGED <<dirs, lockHolder, repoLocal, ckind, cname, cver, dest, cBefore>>

\* copyDir(to, path): files of the working copy are written to the
\* destination; a failed copy may have written some
goGetCopy(g, out) ==
    /\ cpc[g] = "copy"
    /\ out \in OpOutcomes
    /\ IF out = "ok"
       THEN /\ dest' = [dest EXCEPT ![g] = @ \cup {wcRev[cname[g]]}]
            /\ cerr' = [cerr EXCEPT ![g] = ""]
       ELSE /\ \E written \in {{}, {wcRev[cname[g]]}} : dest' = [dest EXCEPT ![g] = @ \cup written]
            /\ cerr' = [cerr EXCEPT ![g] = "copying repo"]
    /\ cpc' = [cpc EXCEPT ![g] = "close"]
    /\ ops' = Did(g, "copy", out)
    /\ UNCHANGED <<dirs, lockHolder, repoLocal, wcRev, ckind, cname, cver, cBefore>>

\* mutant of dirClose: the lock is released only when f returned nil
dirCloseOnSuccess(g) ==
    /\ cpc[g] = "close"
    /\ ckind[g] = "goGet"
    /\ lockHolder' = IF cerr[g] = "" THEN [lockHolder EXCEPT ![cname[g]] = 0] ELSE lockHolder
    /\ cpc' = [cpc EXCEPT ![g] = "done"]
    /\ UNCHANGED <<dirs, repoLocal, wcRev, ckind, cname, cver, cerr, dest, ops, cBefore>>

\* cache.dir: f has returned, the deferred closer.Close() runs and dir returns
dirClose(g) ==
    /\ cpc[g] = "close"
    /\ ckind[g] = "goGet"
    /\ lockHolder' = [lockHolder EXCEPT ![cname[g]] = 0]
    /\ cpc' = [cpc EXCEPT ![g] = "done"]
    /\ UNCHANGED <<dirs, repoLocal, wcRev, ckind, cname, cver, cerr, dest, ops, cBefore>>

\* cache.file: f has returned, the deferred closer.Close() runs and file returns
fileClose(g) ==
    /\ cpc[g] = "close"
    /\ ckind[g] = "file"
    /\ lockHolder' = [lockHolder EXCEPT ![cname[g]] = 0]
    /\ cpc' = [cpc EXCEPT ![g] = "done"]
    /\ UNCHANGED <<dirs, repoLocal, wcRev, ckind, cname, cver, cerr, dest, ops, cBefore>>

\* newCache has made cache.dirname, which is empty
CInit ==
    /\ dirs = {}
    /\ lockHolder = [n \in CacheNames |-> 0]
    /\ repoLocal = {}
    /\ wcRev = [n \in CacheNames |-> ""]
    /\ cpc = [g \in Gets |-> "idle"]
    /\ ckind = [g \in Gets |-> ""]
    /\ cname = [g \in Gets |-> ""]
    /\ cver = [g \in Gets |-> ""]
    /\ cerr = [g \in Gets |-> ""]
    /\ dest = [g \in Gets |-> {}]
    /\ ops = [g \in Gets |-> <<>>]
    /\ cBefore = [g \in Gets |-> {}]

\* no call of goGet or cache.file is made
CIdle ==
    /\ dirs = {}
    /\ lockHolder = [n \in CacheNames |-> 0]
    /\ repoLocal = {}
    /\ wcRev = [n \in CacheNames |-> ""]
    /\ cpc = [g \in Gets |-> "off"]
    /\ ckind = [g \in Gets |-> ""]
    /\ cname = [g \in Gets |-> ""]
    /\ cver = [g \in Gets |-> ""]
    /\ cerr = [g \in Gets |-> ""]
    /\ dest = [g \in Gets |-> {}]
    /\ ops = [g \in Gets |-> <<>>]
    /\ cBefore = [g \in Gets |-> {}]

----------------------------------------------------------------------------
(* parseImportMeta, imports.go:184-237 *)

\* the white space strings.Fields splits on
Space == {" ", "\t", "\n", "\r"}

\* strings.Fields: the maximal runs of characters that are not white space
RECURSIVE FieldsAcc(_, _, _)
FieldsAcc(s, cur, acc) ==
    IF s = "" THEN (IF cur = "" THEN acc ELSE Append(acc, cur))
    ELSE IF Head(s) \in Space
         THEN FieldsAcc(Tail(s), "", IF cur = "" THEN acc ELSE Append(acc, cur))
         ELSE FieldsAcc(Tail(s), cur \o Head(s), acc)

Fields(s) == FieldsAcc(s, "", <<>>)

\* a pkgMeta whose fields are the strings of a discovery page
NilMetaStr == [Root |-> "", VCS |-> "", Remote |-> ""]
OkStr(m)  == [meta |-> m, err |-> ""]
ErrStr(e) == [meta |-> NilMetaStr, err |-> e]

NoMetaErr == "no 'go-import' meta field found"
DecodeErr == "parsing go-get response"

\* the tokens d.Token() yields: xml.StartElement ("start") and xml.EndElement
\* ("end") with Name.Local and, for a start element, Attr; every other token
\* is "other"
Attr(n, v) == [name |-> n, value |-> v]
StartElement(n, attrs) == [kind |-> "start", name |-> n, attr |-> attrs]
EndElement(n) == [kind |-> "end", name |-> n, attr |-> <<>>]
CharData == [kind |-> "other", name |-> "", attr |-> <<>>]

\* attrValue: the value of the first attribute with that name, whatever the
\* case, "" when there is none
RECURSIVE attrValue(_, _)
attrValue(attrs, name) ==
    IF attrs = <<>> THEN ""
    ELSE IF EqualFold(Head(attrs).name, name) THEN Head(attrs).value
         ELSE attrValue(Tail(attrs), name)

\* mutant of parseImportMeta: the first three fields of a content attribute
\* with three fields or more are taken
RECURSIVE parseImportMetaFirstThree(_, _)
parseImportMetaFirstThree(toks, end) ==
    IF toks = <<>>
    THEN IF end = "EOF" THEN ErrStr(NoMetaErr) ELSE ErrStr(DecodeErr)
    ELSE LET t == Head(toks)
             f == Fields(attrValue(t.attr, "content"))
         IN IF t.kind = "start" /\ EqualFold(t.name, "body") THEN ErrStr(NoMetaErr)
            ELSE IF t.kind = "end" /\ EqualFold(t.name, "head") THEN ErrStr(NoMetaErr)
            ELSE IF t.kind # "start" \/ ~EqualFold(t.name, "meta")
                 THEN parseImportMetaFirstThree(Tail(toks), end)
            ELSE IF attrValue(t.attr, "name") # "go-import"
                 THEN parseImportMetaFirstThree(Tail(toks), end)
            ELSE IF Len(f) >= 3
                 THEN OkStr([Root |-> f[1], VCS |-> f[2], Remote |-> f[3]])
                 ELSE parseImportMetaFirstThree(Tail(toks), end)

\* parseImportMeta on the tokens the decoder yields before d.Token() fails
\* with io.EOF (end = "EOF") or with another error (end = "error")
RECURSIVE parseImportMeta(_, _)
parseImportMeta(toks, end) ==
    IF toks = <<>>
    THEN IF end = "EOF" THEN ErrStr(NoMetaErr) ELSE ErrStr(DecodeErr)
    ELSE LET t == Head(toks)
             f == Fields(attrValue(t.attr, "content"))
         IN IF t.kind = "start" /\ EqualFold(t.name, "body") THEN ErrStr(NoMetaErr)
            ELSE IF t.kind = "end" /\ EqualFold(t.name, "head") THEN ErrStr(NoMetaErr)
            ELSE IF t.kind # "start" \/ ~EqualFold(t.name, "meta")
                 THEN parseImportMeta(Tail(toks), end)
            ELSE IF attrValue(t.attr, "name") # "go-import"
                 THEN parseImportMeta(Tail(toks), end)
            ELSE IF Len(f) = 3
                 THEN OkStr([Root |-> f[1], VCS |-> f[2], Remote |-> f[3]])
                 ELSE parseImportMeta(Tail(toks), end)

\* a meta element with a name and a content attribute
Meta(name, content) == StartElement("meta", <<Attr("name", name), Attr("content", content)>>)

\* the tokens of the pages: the elements of the pages of TestPartImportMeta,
\* and meta elements with other names, cases and numbers of fields
PageTokens ==
    { Meta("go-import", "go4.org git https://github.com/camlistore/go4"),
      Meta("go-import", "golang.org/x/net  git\thttps://go.googlesource.com/net\n"),
      Meta("go-import", "a.org git https://a.org/r extra"),
      Meta("go-import", "a.org git"),
      Meta("go-import", ""),
      Meta("go-source", "go4.org https://github.com/camlistore/go4/ https://github.com/camlistore/go4/tree/master{/dir}"),
      Meta("Go-Import", "c.org hg https://c.org/r"),
      StartElement("META", <<Attr("CONTENT", "up.org bzr https://up.org/r"), Attr("NAME", "go-import")>>),
      StartElement("meta", <<Attr("name", "other"), Attr("name", "go-import"),
                             Attr("content", "two.org svn https://two.org/r")>>),
      StartElement("meta", <<Attr("http-equiv", "refresh"), Attr("content", "0; url=https://godoc.org/go4.org/lock")>>),
      StartElement("html", <<>>),
      StartElement("head", <<>>),
      EndElement("head"),
      EndElement("HEAD"),
      StartElement("body", <<>>),
      StartElement("Body", <<Attr("name", "go-import")>>),
      EndElement("body"),
      EndElement("meta"),
      CharData }

\* the token sequences of at most n tokens
RECURSIVE PagesUpTo(_)
PagesUpTo(n) ==
    IF n = 0 THEN {<<>>}
    ELSE LET shorter == PagesUpTo(n - 1)
         IN shorter \cup {Append(s, t) : s \in {x \in shorter : Len(x) = n - 1}, t \in PageTokens}

\* parseImportMeta(r) is called on a page and returns
CallParseImportMeta ==
    /\ fpc = "call"
    /\ fres' = parseImportMeta(farg.toks, farg.end)
    /\ fpc' = "done"
    /\ UNCHANGED farg

FInitParse ==
    /\ farg \in [toks : PagesUpTo(MaxTokens), end : {"EOF", "error"}]
    /\ fres = <<>>
    /\ fpc = "call"

----------------------------------------------------------------------------
(* The calls of importMeta, imports.go:50-67 *)

\* the hosts and the following segments of the paths importMeta is called on
StaticHosts ==
    {"github.com", "bitbucket.org", "launchpad.net", "git.launchpad.net", "hub.jazz.net",
     "go.googlesource.com", "code.google.com", "x.googlecode.com", "example.org",
     "example.org:8080"}
StaticSegs == {"spf13", "cobra", "~u", "+junk", "+git", "git", "svn", "p", "r.git", "", "a!b"}

RECURSIVE SegsUpTo(_)
SegsUpTo(n) ==
    IF n = 0 THEN {<<>>}
    ELSE LET shorter == SegsUpTo(n - 1)
         IN shorter \cup {Append(s, t) : s \in {x \in shorter : Len(x) = n - 1}, t \in StaticSegs}

\* the names of TestImportMeta
TestImportNames ==
    { <<"github.com", "spf13", "cobra">>,
      <<"github.com", "miekg", "dns", "dnsutil">>,
      <<"bitbucket.org", "bertimus9", "systemstat">> }

StaticPaths ==
    {<<h>> \o s : h \in StaticHosts, s \in SegsUpTo(MaxSegs)} \cup TestImportNames

\* importMeta(pkg) is called and returns
CallImportMeta ==
    /\ fpc = "call"
    /\ fres' = importMeta(farg)
    /\ fpc' = "done"
    /\ UNCHANGED farg

FInitStatic ==
    /\ farg \in StaticPaths
    /\ fres = <<>>
    /\ fpc = "call"

----------------------------------------------------------------------------
(* loadImports, imports.go:19-33 *)

\* the keys of the map goStdPackages
goStdPackages ==
    {"C", "archive/tar", "archive/zip", "bufio", "bytes", "compress/bzip2",
     "compress/flate", "compress/gzip", "compress/lzw", "compress/zlib", "container/heap",
     "container/list", "container/ring", "context", "crypto", "crypto/aes",
     "crypto/cipher", "crypto/des", "crypto/dsa", "crypto/ecdsa", "crypto/elliptic",
     "crypto/hmac", "crypto/internal/cipherhw", "crypto/md5", "crypto/rand", "crypto/rc4",
     "crypto/rsa", "crypto/sha1", "crypto/sha256", "crypto/sha512", "crypto/subtle",
     "crypto/tls", "crypto/x509", "crypto/x509/pkix", "database/sql",
     "database/sql/driver", "debug/dwarf", "debug/elf", "debug/gosym", "debug/macho",
     "debug/pe", "debug/plan9obj", "encoding", "encoding/ascii85", "encoding/asn1",
     "encoding/base32", "encoding/base64", "encoding/binary", "encoding/csv",
     "encoding/gob", "encoding/hex", "encoding/json", "encoding/pem", "encoding/xml",
     "errors", "expvar", "flag", "fmt", "go/ast", "go/build", "go/constant", "go/doc",
     "go/format", "go/importer", "go/internal/gccgoimporter", "go/internal/gcimporter",
     "go/internal/srcimporter", "go/parser", "go/printer", "go/scanner", "go/token",
     "go/types", "hash", "hash/adler32", "hash/crc32", "hash/crc64", "hash/fnv", "html",
     "html/template", "image", "image/color", "image/color/palette", "image/draw",
     "image/gif", "image/internal/imageutil", "image/jpeg", "image/png",
     "index/suffixarray", "internal/cpu", "internal/nettrace", "internal/poll",
     "internal/race", "internal/singleflight", "internal/syscall/unix",
     "internal/syscall/windows", "internal/syscall/windows/registry",
     "internal/syscall/windows/sysdll", "internal/testenv", "internal/trace", "io",
     "io/ioutil", "log", "log/syslog", "math", "math/big", "math/bits", "math/cmplx",
     "math/rand", "mime", "mime/multipart", "mime/quotedprintable", "net", "net/http",
     "net/http/cgi", "net/http/cookiejar", "net/http/fcgi", "net/http/httptest",
     "net/http/httptrace", "net/http/httputil", "net/http/internal", "net/http/pprof",
     "net/internal/socktest", "net/mail", "net/rpc", "net/rpc/jsonrpc", "net/smtp",
     "net/textproto", "net/url", "os", "os/exec", "os/signal", "os/user", "path",
     "path/filepath", "plugin", "reflect", "regexp", "regexp/syntax", "runtime",
     "runtime/cgo", "runtime/debug", "runtime/internal/atomic", "runtime/internal/sys",
     "runtime/pprof", "runtime/pprof/internal/profile", "runtime/race", "runtime/trace",
     "sort", "strconv", "strings", "sync", "sync/atomic", "syscall", "testing",
     "testing/internal/testdeps", "testing/iotest", "testing/quick", "text/scanner",
     "text/tabwriter", "text/template", "text/template/parse", "time", "unicode",
     "unicode/utf16", "unicode/utf8", "unsafe" }

\* imp.Path.Value of an import declaration: the string literal as it is
\* written in the file, with its quotes (ast.BasicLit)
Literal(path) == "\"" \o path \o "\""

\* the import paths of the files, those of the file of TestLoadInfo among them
ImportedPaths ==
    {"net", "golang.org/x/net", "golang.org/x/net/context", "fmt", "C", "os", "go4.org/lock"}

ImportLiterals == {Literal(q) : q \in ImportedPaths}

RECURSIVE ImportsUpTo(_)
ImportsUpTo(n) ==
    IF n = 0 THEN {<<>>}
    ELSE LET shorter == ImportsUpTo(n - 1)
         IN shorter \cup
            {Append(s, v) : s \in {x \in shorter : Len(x) = n - 1}, v \in ImportLiterals}

\* the loop of lines 26-31 over the Path.Value of f.Imports
RECURSIVE keepImports(_)
keepImports(values) ==
    IF values = <<>> THEN <<>>
    ELSE IF Head(values) = "" \/ Head(values) \in goStdPackages
         THEN keepImports(Tail(values))
         ELSE <<Head(values)>> \o keepImports(Tail(values))

\* loadImports(file) on a file that parser.ParseFile parses (parses = TRUE)
\* into the import declarations values, or does not
loadImports(parsed) ==
    IF ~parsed.parses THEN [imports |-> <<>>, err |-> "parsing file"]
    ELSE [imports |-> keepImports(parsed.values), err |-> ""]

\* loadImports(file) is called and returns
CallLoadImports ==
    /\ fpc = "call"
    /\ fres' = loadImports(farg)
    /\ fpc' = "done"
    /\ UNCHANGED farg

FInitLoad ==
    /\ farg \in [parses : {TRUE}, values : ImportsUpTo(MaxImports)]
                 \cup {[parses |-> FALSE, values |-> <<>>]}
    /\ fres = <<>>
    /\ fpc = "call"

\* none of the three functions is called
FIdle ==
    /\ farg = <<>>
    /\ fres = <<>>
    /\ fpc = "off"

Init == RInit /\ GIdle /\ KIdle /\ IIdle /\ WIdle /\ CIdle /\ FIdle

Next ==
    \/ \E c \in Calls, p \in Paths : Start(c, p) /\ UNCHANGED <<gvars, kvars, ivars, wvars, cvars, fvars>>
    \/ \E c \in Calls : Cancel(c) /\ UNCHANGED <<gvars, kvars, ivars, wvars, cvars, fvars>>
    \/ \E c \in Calls : Lock(c) /\ UNCHANGED <<gvars, kvars, ivars, wvars, cvars, fvars>>
    \/ \E c \in Calls : ScanCache(c) /\ UNCHANGED <<gvars, kvars, ivars, wvars, cvars, fvars>>
    \/ \E c \in Calls : ScanInflight(c) /\ UNCHANGED <<gvars, kvars, ivars, wvars, cvars, fvars>>
    \/ \E c \in Calls : Register(c) /\ UNCHANGED <<gvars, kvars, ivars, wvars, cvars, fvars>>
    \/ \E c \in Calls : SelectCtx(c) /\ UNCHANGED <<gvars, kvars, ivars, wvars, cvars, fvars>>
    \/ \E c \in Calls : SelectDone(c) /\ UNCHANGED <<gvars, kvars, ivars, wvars, cvars, fvars>>
    \/ \E c \in Calls : \E out \in FetchOutcomes(c) : Fetch(c, out) /\ UNCHANGED <<gvars, kvars, ivars, wvars, cvars, fvars>>
    \/ \E c \in Calls : Close(c) /\ UNCHANGED <<gvars, kvars, ivars, wvars, cvars, fvars>>
    \/ \E c \in Calls : Relock(c) /\ UNCHANGED <<gvars, kvars, ivars, wvars, cvars, fvars>>
    \/ \E c \in Calls : Record(c) /\ UNCHANGED <<gvars, kvars, ivars, wvars, cvars, fvars>>

Spec == Init /\ [][Next]_vars

\* the paths asked for in the runs of SpecLive: a repository root and a
\* package below it
LivePaths == {PathM, PathMP}

\* one step of the goroutine of call c once it has been started: the caller's
\* Start and Cancel are not steps of the goroutine
Step(c) ==
    \/ Lock(c)
    \/ ScanCache(c)
    \/ ScanInflight(c)
    \/ Register(c)
    \/ SelectCtx(c)
    \/ SelectDone(c)
    \/ \E out \in FetchOutcomes(c) : Fetch(c, out)
    \/ Close(c)
    \/ Relock(c)
    \/ Record(c)

NextLive ==
    \/ \E c \in Calls, p \in LivePaths : Start(c, p) /\ UNCHANGED <<gvars, kvars, ivars, wvars, cvars, fvars>>
    \/ \E c \in Calls : Cancel(c) /\ UNCHANGED <<gvars, kvars, ivars, wvars, cvars, fvars>>
    \/ \E c \in Calls : Step(c) /\ UNCHANGED <<gvars, kvars, ivars, wvars, cvars, fvars>>

\* the runs of the resolver in which every started goroutine is scheduled again
\* and again and every discovery fetch returns
SpecLive ==
    /\ Init
    /\ [][NextLive]_vars
    /\ \A c \in Calls : WF_vars(Step(c) /\ UNCHANGED <<gvars, kvars, ivars, wvars, cvars, fvars>>)

InitParse == RInit /\ GIdle /\ KIdle /\ IIdle /\ WIdle /\ CIdle /\ FInitParse

NextParse == CallParseImportMeta /\ UNCHANGED <<rvars, gvars, kvars, ivars, wvars, cvars>>

SpecParse == InitParse /\ [][NextParse]_vars

InitStatic == RInit /\ GIdle /\ KIdle /\ IIdle /\ WIdle /\ CIdle /\ FInitStatic

NextStatic == CallImportMeta /\ UNCHANGED <<rvars, gvars, kvars, ivars, wvars, cvars>>

SpecStatic == InitStatic /\ [][NextStatic]_vars

InitLoad == RInit /\ GIdle /\ KIdle /\ IIdle /\ WIdle /\ CIdle /\ FInitLoad

NextLoad == CallLoadImports /\ UNCHANGED <<rvars, gvars, kvars, ivars, wvars, cvars>>

SpecLoad == InitLoad /\ [][NextLoad]_vars

InitGodeps == RInit /\ GInit /\ KIdle /\ IIdle /\ WIdle /\ CIdle /\ FIdle

NextGodeps ==
    \/ Unmarshal /\ UNCHANGED <<rvars, kvars, ivars, wvars, cvars, fvars>>
    \/ ParseRecord /\ UNCHANGED <<rvars, kvars, ivars, wvars, cvars, fvars>>
    \/ ParseEnd /\ UNCHANGED <<rvars, kvars, ivars, wvars, cvars, fvars>>
    \/ \E rev \in Revs : GoTask(rev) /\ UNCHANGED <<rvars, kvars, ivars, wvars, cvars, fvars>>
    \/ \E rev \in Revs : TaskLookup(rev) /\ UNCHANGED <<rvars, kvars, ivars, wvars, cvars, fvars>>
    \/ \E rev \in Revs : \E out \in LookupOutcomes(toLookup[rev]) :
           TaskLookupReturn(rev, out) /\ UNCHANGED <<rvars, kvars, ivars, wvars, cvars, fvars>>
    \/ \E rev \in Revs : TaskFinish(rev) /\ UNCHANGED <<rvars, kvars, ivars, wvars, cvars, fvars>>
    \/ WaitReturn /\ UNCHANGED <<rvars, kvars, ivars, wvars, cvars, fvars>>

SpecGodeps == InitGodeps /\ [][NextGodeps]_vars

InitKey == RInit /\ GIdle /\ KInit /\ IIdle /\ WIdle /\ CIdle /\ FIdle

NextKey == CallCacheKey /\ UNCHANGED <<rvars, gvars, ivars, wvars, cvars, fvars>>

SpecKey == InitKey /\ [][NextKey]_vars

InitIgnore == RInit /\ GIdle /\ KIdle /\ IInit /\ WIdle /\ CIdle /\ FIdle

NextIgnore == CallIgnoreFile /\ UNCHANGED <<rvars, gvars, kvars, wvars, cvars, fvars>>

SpecIgnore == InitIgnore /\ [][NextIgnore]_vars

InitCopy == RInit /\ GIdle /\ KIdle /\ IIdle /\ WInit /\ CIdle /\ FIdle

NextCopy ==
    \/ visitRoot /\ UNCHANGED <<rvars, gvars, kvars, ivars, cvars, fvars>>
    \/ visitDir /\ UNCHANGED <<rvars, gvars, kvars, ivars, cvars, fvars>>
    \/ visitFile /\ UNCHANGED <<rvars, gvars, kvars, ivars, cvars, fvars>>
    \/ walkReturn /\ UNCHANGED <<rvars, gvars, kvars, ivars, cvars, fvars>>
    \/ copyDirAgain /\ UNCHANGED <<rvars, gvars, kvars, ivars, cvars, fvars>>

SpecCopy == InitCopy /\ [][NextCopy]_vars

InitGoGet == RInit /\ GIdle /\ KIdle /\ IIdle /\ WIdle /\ CInit /\ FIdle

NextGoGet ==
    \/ \E g \in Gets, r \in Remotes, v \in GetVersions :
           goGet(g, r, v) /\ UNCHANGED <<rvars, gvars, kvars, ivars, wvars, fvars>>
    \/ \E g \in Gets, n \in CacheNames : file(g, n) /\ UNCHANGED <<rvars, gvars, kvars, ivars, wvars, fvars>>
    \/ \E g \in Gets : dirStat(g) /\ UNCHANGED <<rvars, gvars, kvars, ivars, wvars, fvars>>
    \/ \E g \in Gets : dirMkdir(g) /\ UNCHANGED <<rvars, gvars, kvars, ivars, wvars, fvars>>
    \/ \E g \in Gets : dirLock(g) /\ UNCHANGED <<rvars, gvars, kvars, ivars, wvars, fvars>>
    \/ \E g \in Gets : fileLock(g) /\ UNCHANGED <<rvars, gvars, kvars, ivars, wvars, fvars>>
    \/ \E g \in Gets, out \in OpOutcomes : fileFn(g, out) /\ UNCHANGED <<rvars, gvars, kvars, ivars, wvars, fvars>>
    \/ \E g \in Gets, out \in OpOutcomes : repoOpen(g, out) /\ UNCHANGED <<rvars, gvars, kvars, ivars, wvars, fvars>>
    \/ \E g \in Gets, out \in OpOutcomes : repoGet(g, out) /\ UNCHANGED <<rvars, gvars, kvars, ivars, wvars, fvars>>
    \/ \E g \in Gets, out \in OpOutcomes :
           repoUpdateVersion(g, out) /\ UNCHANGED <<rvars, gvars, kvars, ivars, wvars, fvars>>
    \/ \E g \in Gets, out \in OpOutcomes : repoUpdate(g, out) /\ UNCHANGED <<rvars, gvars, kvars, ivars, wvars, fvars>>
    \/ \E g \in Gets, out \in OpOutcomes :
           repoUpdateVersionRetry(g, out) /\ UNCHANGED <<rvars, gvars, kvars, ivars, wvars, fvars>>
    \/ \E g \in Gets, out \in OpOutcomes : goGetCopy(g, out) /\ UNCHANGED <<rvars, gvars, kvars, ivars, wvars, fvars>>
    \/ \E g \in Gets : dirClose(g) /\ UNCHANGED <<rvars, gvars, kvars, ivars, wvars, fvars>>
    \/ \E g \in Gets : fileClose(g) /\ UNCHANGED <<rvars, gvars, kvars, ivars, wvars, fvars>>

SpecGoGet == InitGoGet /\ [][NextGoGet]_vars

----------------------------------------------------------------------------
(* The resolver's claims, checked under Spec *)

Started(c)  == pc[c] # "idle"
Returned(c) == pc[c] = "done"
Scanned(c)  == pc[c] \notin {"idle", "lock", "scan"}

\* the two calls were in progress at the same time
Overlap(c, d) ==
    /\ c # d /\ Started(c) /\ Started(d)
    /\ c \notin doneBefore[d] /\ d \notin doneBefore[c]

\* some root a discovery page names is a prefix of both paths
ShareRoot(p, q) == \E r \in ServerRoots : HasPrefix(p, r) /\ HasPrefix(q, r)

PrefixRelated(p, q) == HasPrefix(p, q) \/ HasPrefix(q, p)

InflightSet == {inflight[i] : i \in 1..Len(inflight)}

\* C1, as stated: of the calls that overlap in time and whose paths share a
\* root, at most one starts a discovery fetch, and those that are not cancelled
\* return the same pkgMeta or the same error.
C1_OneFetchPerRoot ==
    \A c, d \in Calls :
        (Overlap(c, d) /\ ShareRoot(pkg[c], pkg[d])) =>
            /\ ~(via[c] = "fetch" /\ via[d] = "fetch")
            /\ (Returned(c) /\ Returned(d) /\ ret[c] # CancelErr /\ ret[d] # CancelErr)
                   => ret[c] = ret[d]

\* C1, amended: a call that finds at its scan no cached result but an inflight
\* entry whose key is a prefix of its path, or has its path as a prefix, starts
\* no fetch of its own, and unless it returns the cancellation error it returns
\* the very pkgMeta or error of that entry, which is what the entry's creator
\* returns.
C1_JoinersShareTheFetch ==
    \A c \in Calls :
        joined[c] # 0 =>
            /\ via[c] = "join"
            /\ c \notin InflightSet /\ infRes[c] = NoResult /\ ~done[c]
            /\ via[joined[c]] = "fetch"
            /\ PrefixRelated(pkg[c], pkg[joined[c]])
            /\ Returned(c) =>
                  \/ ret[c] = CancelErr
                  \/ done[joined[c]] /\ ret[c] = infRes[joined[c]]
            /\ Returned(joined[c]) => ret[joined[c]] = infRes[joined[c]]

\* a joiner and the creator of its entry have both returned the fetched pkgMeta
C1_Witness ==
    \E c \in Calls :
        /\ joined[c] # 0 /\ Returned(c) /\ Returned(joined[c])
        /\ IsOk(ret[c]) /\ ret[c] = ret[joined[c]]
        /\ pkg[c] # pkg[joined[c]]

\* C2, as stated: once a call has returned a pkgMeta with Root R, every call
\* that starts afterwards for a path with prefix R returns that pkgMeta from the
\* results list, without a new fetch.
C2_HitAfterAnySuccess ==
    \A c, d \in Calls :
        (Returned(c) /\ d \in doneBefore[c] /\ IsOk(ret[d])
            /\ HasPrefix(pkg[c], ret[d].meta.Root)) =>
            via[c] = "cache" /\ ret[c] = ret[d]

\* C2, amended: once a call that made the fetch itself, or was served from the
\* results list, has returned a pkgMeta with Root R (so that it is in the list),
\* every call that starts afterwards for a path with prefix R is served from the
\* list without a fetch and without waiting, with the first entry of the list
\* whose Root is a prefix of its path.
C2_HitAfterRecordedSuccess ==
    \A c, d \in Calls :
        (Scanned(c) /\ d \in doneBefore[c] /\ IsOk(ret[d]) /\ via[d] \in {"fetch", "cache"}
            /\ HasPrefix(pkg[c], ret[d].meta.Root)) =>
            /\ Returned(c) /\ via[c] = "cache" /\ joined[c] = 0
            /\ CacheHit(pkg[c]) # 0
            /\ ret[c] = Ok(results[CacheHit(pkg[c])])
            /\ HasPrefix(pkg[c], ret[c].meta.Root)

\* a later call is served from the list with the pkgMeta an earlier fetch recorded
C2_Witness ==
    \E c, d \in Calls :
        /\ Returned(c) /\ d \in doneBefore[c] /\ IsOk(ret[d]) /\ via[d] = "fetch"
        /\ HasPrefix(pkg[c], ret[d].meta.Root) /\ pkg[c] # pkg[d]
        /\ via[c] = "cache" /\ ret[c] = ret[d]

\* C3, as stated: a call that joined an inflight request and whose ctx is
\* cancelled before the request signals completion returns the cancellation
\* error, not the fetch's result.
C3_CancelledJoinerGetsCancelErr ==
    \A c \in Calls :
        (Returned(c) /\ joined[c] # 0 /\ ctxFirst[c]) => ret[c] = CancelErr

\* C3, amended: the select of a joined call returns the cancellation error
\* when only its ctx is done, the entry's result when only the entry is done,
\* and one of the two when both are: a ctx cancelled before the entry
\* completes gives the cancellation error only if the select runs before the
\* completion.
C3_SelectTakesAReadyCase ==
    [][\A c \in Calls :
          (pc[c] = "select" /\ pc'[c] = "done") =>
              /\ ret'[c] \in {CancelErr, infRes[joined[c]]}
              /\ ~done[joined[c]] => (ctxDone[c] /\ ret'[c] = CancelErr)
              /\ ~ctxDone[c] => (done[joined[c]] /\ ret'[c] = infRes[joined[c]])
              /\ ret'[c] = CancelErr => ctxDone[c]]_vars

\* a joined call cancelled before the completion has returned the cancellation error
C3_Witness ==
    \E c \in Calls :
        /\ Returned(c) /\ joined[c] # 0 /\ ctxFirst[c]
        /\ ~done[joined[c]] /\ ret[c] = CancelErr

\* C4: a resolution whose fetch fails adds nothing to the results list and
\* leaves no inflight entry behind; a later call for the same path is not given
\* the earlier error: it is served a pkgMeta from the list, or by a request
\* that was still running when it started, or by its own new fetch.
C4_ErrorsAreNotCached ==
    /\ \A i \in 1..Len(results) : results[i] \in ServerMetas
    /\ Len(results) = Cardinality({c \in Calls : Returned(c) /\ via[c] = "fetch" /\ IsOk(ret[c])})
    /\ \A c \in Calls :
          (Returned(c) /\ via[c] = "fetch") =>
              c \notin InflightSet
    /\ \A c, d \in Calls :
          (Scanned(c) /\ d \in doneBefore[c] /\ via[d] = "fetch" /\ ~IsOk(ret[d])
              /\ pkg[c] = pkg[d]) =>
              /\ joined[c] \notin doneBefore[c]
              /\ via[c] = "cache" => IsOk(ret[c])
              /\ via[c] \in {"cache", "join", "fetch"}
              /\ (\A e \in Calls \ {c, d} : ~Started(e)) => via[c] = "fetch"

\* after a failed resolution a later call for the same path has fetched again
C4_Witness ==
    \E c, d \in Calls :
        /\ d \in doneBefore[c] /\ via[d] = "fetch" /\ ret[d] = FetchErr
        /\ pkg[c] = pkg[d] /\ via[c] = "fetch" /\ Returned(c) /\ IsOk(ret[c])

\* C5, as stated: on a cache miss and inflight miss the static templates are
\* tried first, and a path that a template matches is resolved without a
\* discovery fetch.
C5_StaticMatchBeforeFetch ==
    \A c \in Calls : via[c] = "fetch" => ~IsOk(importMeta(pkg[c]))

\* C5, amended: on a cache miss and inflight miss the call makes the discovery
\* fetch for its path whether or not a static template matches the path: every
\* call is served by the results list, by an inflight request or by its own
\* discovery fetch, and what the fetching call returns is what the fetch
\* returned.
C5_MissAlwaysFetches ==
    \A c \in Calls :
        /\ Scanned(c) => via[c] \in {"cache", "join", "fetch"}
        /\ (Returned(c) /\ via[c] = "fetch") =>
              /\ done[c] /\ ret[c] = infRes[c]
              /\ ret[c] \in {FetchErr} \cup {Ok(m) : m \in ServerMetas}
        /\ (Returned(c) /\ IsOk(ret[c])) => ret[c].meta \in ServerMetas

\* a path that a static template matches has been resolved by a discovery fetch
C5_Witness ==
    \E c \in Calls :
        /\ Returned(c) /\ via[c] = "fetch" /\ IsOk(importMeta(pkg[c]))
        /\ IsOk(ret[c]) /\ ret[c] # importMeta(pkg[c])

\* C6, as stated: every pkgMeta returned by a call for path p has a Root that
\* is a prefix of p.
C6_RootIsPrefixOfPath ==
    \A c \in Calls :
        (Returned(c) /\ IsOk(ret[c])) => HasPrefix(pkg[c], ret[c].meta.Root)

\* the keys of the inflight entries
InflightKeys == {pkg[c] : c \in InflightSet}

\* no result of the list has a Root that is a prefix of p
CacheMiss(p) == \A i \in 1..Len(results) : ~HasPrefix(p, results[i].Root)

\* no two entries of the inflight list have keys of which one is a prefix of
\* the other
NoRelatedInflight ==
    \A i, j \in 1..Len(inflight) :
        i # j => ~PrefixRelated(pkg[inflight[i]], pkg[inflight[j]])

\* C24: a call that finds no cached result for its path (the "else" of the
\* cache scan) and whose path is a prefix of an inflight entry's key, or has
\* that key as a prefix, joins such an entry and registers none of its own;
\* hence at every moment no two entries of the inflight list have keys of which
\* one is a prefix of the other, and no two have the same key.
C24_RelatedCallsJoin ==
    [][/\ \A c \in Calls :
            (/\ pc[c] = "scan" /\ pc'[c] # "scan"
             /\ CacheMiss(pkg[c])
             /\ \E k \in InflightKeys : PrefixRelated(pkg[c], k)) =>
                /\ inflight' = inflight
                /\ pc'[c] = "select"
                /\ joined'[c] \in InflightSet
                /\ PrefixRelated(pkg[c], pkg[joined'[c]])
       /\ NoRelatedInflight'
       /\ Cardinality(InflightKeys') = Len(inflight')]_vars

\* two requests are in flight and a call for another path has joined one of them
C24_Witness ==
    \E c \in Calls :
        /\ Len(inflight) = 2
        /\ pc[c] = "select" /\ joined[c] \in InflightSet
        /\ pkg[c] # pkg[joined[c]]

\* C25: the mutex is held by a call only between its Lock and the end of its
\* scan of the two lists, and between its second Lock and the end of the list
\* update: never during the discovery fetch, never while the call waits in the
\* select, and never once the call has returned.
C25_MutexNotHeldWhileBlocked ==
    /\ mu \in {0} \cup Calls
    /\ \A c \in Calls :
          /\ pc[c] \in {"select", "fetch", "close"} => mu # c
          /\ pc[c] \in {"idle", "lock", "relock", "done"} => mu # c
          /\ mu = c => pc[c] \in {"scan", "record"}

\* while one call is in its fetch and another waits in the select, a third
\* holds the mutex
C25_Witness ==
    \E c, d, e \in Calls :
        /\ pc[c] = "fetch" /\ pc[d] = "select" /\ mu = e

\* C26, as stated: the results list never contains two entries with the same
\* Root.
C26_OneEntryPerRoot ==
    \A i, j \in 1..Len(results) : i # j => results[i].Root # results[j].Root

\* C26, amended: the list changes only by the append of the pkgMeta of one
\* successful fetch, by the call that made it; a call that finds at its scan
\* a result whose Root is a prefix of its path returns without registering a
\* request, so it never fetches or appends. Two calls whose paths are not
\* prefixes of one another, and which both scan before either records, both
\* fetch, and the list then holds one entry for each, with the same Root when
\* the two pages name the same root.
C26_AppendOnlyByMissedFetch ==
    [][/\ \A c \in Calls :
            (pc[c] = "scan" /\ pc'[c] # "scan" /\ ~CacheMiss(pkg[c])) =>
                /\ pc'[c] = "done" /\ via'[c] = "cache"
                /\ inflight' = inflight /\ results' = results
                /\ infRes'[c] = NoResult
       /\ results' # results =>
            \E c \in Calls :
                /\ pc[c] = "record" /\ pc'[c] = "done" /\ via[c] = "fetch"
                /\ IsOk(infRes[c])
                /\ results' = Append(results, infRes[c].meta)
       /\ \A c \in Calls : via'[c] = "cache" => infRes'[c] = NoResult]_vars

\* the list holds two entries with the same Root, recorded by the fetches of
\* two sibling paths, and a later call has been served from the list
C26_Witness ==
    \E c, d, e \in Calls :
        /\ Len(results) = 2 /\ results[1].Root = results[2].Root
        /\ c # d /\ via[c] = "fetch" /\ via[d] = "fetch"
        /\ HasPrefix(pkg[c], results[1].Root) /\ HasPrefix(pkg[d], results[1].Root)
        /\ Returned(e) /\ via[e] = "cache" /\ ret[e] = Ok(results[1])

\* the calls that joined the request of call j
Waiters(j) == {d \in Calls : joined[d] = j}

\* C27: cancelling the ctx of a joined call changes nothing of the request it
\* joined: the ctx of the call that makes the fetch, the fetch's result and the
\* done channel are as before; the call that made the fetch returns the
\* fetch's result, and so does every waiter that does not return the
\* cancellation error.
C27_JoinerCancelLeavesFetch ==
    [][/\ \A c \in Calls :
            (joined[c] # 0 /\ ~ctxDone[c] /\ ctxDone'[c]) =>
                /\ \A d \in Calls \ {c} : ctxDone'[d] = ctxDone[d]
                /\ infRes' = infRes /\ done' = done /\ inflight' = inflight
                /\ pc' = pc /\ ret' = ret
       /\ \A j \in Calls :
            (\E c \in Waiters(j) : ctxDone[c]) =>
                /\ (pc[j] = "fetch" /\ pc'[j] = "close") =>
                      (IsOk(infRes'[j]) \/ infRes'[j] = FetchErr)
                /\ (pc'[j] = "done" /\ pc[j] # "done") => ret'[j] = infRes[j]
                /\ \A d \in Waiters(j) :
                      (pc'[d] = "done" /\ pc[d] # "done" /\ ret'[d] # CancelErr) =>
                          done[j] /\ ret'[d] = infRes[j]]_vars

\* a joined call was cancelled before the fetch completed and returned the
\* cancellation error; the fetch succeeded, and the call that made it and
\* another waiter returned its pkgMeta
C27_Witness ==
    \E j, c, d \in Calls :
        /\ joined[c] = j /\ joined[d] = j /\ c # d
        /\ ctxFirst[c] /\ ret[c] = CancelErr /\ Returned(c)
        /\ ~ctxDone[j] /\ ~ctxDone[d]
        /\ Returned(j) /\ Returned(d)
        /\ IsOk(ret[j]) /\ ret[j] = infRes[j] /\ ret[d] = infRes[j]

\* C28: in the runs in which every goroutine keeps being scheduled and every
\* discovery fetch returns, every registered inflight entry eventually has its
\* done channel closed and is removed from the inflight list, its creator
\* returns, and every call that waits on an entry in the select eventually
\* returns.
C28_InflightEventuallyCompletes ==
    \A c \in Calls :
        /\ (c \in InflightSet) ~> (done[c] /\ c \notin InflightSet /\ Returned(c))
        /\ (pc[c] = "select") ~> Returned(c)

\* an entry is closed and removed, its creator has returned, and a call that
\* was not cancelled has waited for it and returned the fetch's result
C28_Witness ==
    \E c \in Calls :
        /\ joined[c] # 0 /\ ~ctxDone[c] /\ Returned(c)
        /\ done[joined[c]] /\ joined[c] \notin InflightSet /\ Returned(joined[c])
        /\ ret[c] = infRes[joined[c]]
        /\ inflight = <<>>

\* the places of the results whose Root is a prefix of p
MatchesOf(p) == {i \in 1..Len(results) : HasPrefix(p, results[i].Root)}

\* a call for the path of call c that started after c had returned was served
\* from the list
ServedAgain(c, d) ==
    /\ c # d /\ c \in doneBefore[d] /\ pkg[d] = pkg[c]
    /\ Returned(d)

\* C31: a step leaves the results list as it is or appends one entry to it,
\* so that the entries it held keep their places and values; a call served
\* from the list returns its first entry whose Root is a prefix of the path;
\* hence once a call for a path has been served from the list with a pkgMeta,
\* every call for that path that starts afterwards is served from the list
\* with the same pkgMeta.
C31_ListAnswersAreStable ==
    [][/\ Len(results') \in {Len(results), Len(results) + 1}
       /\ SubSeq(results', 1, Len(results)) = results
       /\ \A c \in Calls :
             (pc[c] = "scan" /\ pc'[c] = "done") =>
                 /\ MatchesOf(pkg[c]) # {}
                 /\ ret'[c] = Ok(results[MinOf(MatchesOf(pkg[c]))])
                 /\ results' = results
       /\ \A c, d \in Calls :
             (via'[c] = "cache" /\ c \in doneBefore'[d] /\ pkg'[d] = pkg'[c] /\ Scanned(d)') =>
                 /\ pc'[d] = "done" /\ via'[d] = "cache"
                 /\ ret'[d] = ret'[c]
                 /\ ret'[d] = Ok(results'[MinOf(MatchesOf(pkg[d])')])]_vars

\* a call was served from the list with its first entry, and a call for the
\* same path that started after it had returned was served the same pkgMeta
C31_Witness ==
    \E c, d \in Calls :
        /\ ServedAgain(c, d)
        /\ via[c] = "cache" /\ via[d] = "cache"
        /\ IsOk(ret[c]) /\ ret[d] = ret[c]
        /\ ret[c] = Ok(results[1])

----------------------------------------------------------------------------
(* The manifest parser's claims, checked under SpecGodeps *)

GDone == gpc = "done"

\* the records that name an import path
Named == {k \in 1..Len(deps) : deps[k].ImportPath # NoPath}

\* a record names an import path and has no revision
HasUnpinned == \E k \in Named : deps[k].Rev = NoRev

NamedRevs == {deps[k].Rev : k \in Named}

Versions(pkgs) == {pkgs[i].version : i \in 1..Len(pkgs)}

LookupErrOf(rev) == GErr("lookup metatags for package", toLookup[rev])

\* C7: on success parseGodeps returns exactly one pinnedPackage per distinct
\* revision among the records that name an import path: its version is that
\* revision, its meta is what the resolver returned for one import path that
\* carries the revision, and no two entries have the same version.
C7_OnePackagePerRevision ==
    (GDone /\ validJSON /\ gret.err = NilErr) =>
        /\ Versions(gret.packages) = NamedRevs
        /\ Len(gret.packages) = Cardinality(NamedRevs)
        /\ \A i \in 1..Len(gret.packages) :
              LET e == gret.packages[i]
              IN /\ \E k \in Named :
                        deps[k].Rev = e.version /\ deps[k].ImportPath = toLookup[e.version]
                 /\ toLookup[e.version] \in lookups
                 /\ Ok(e.meta) = tres[e.version]
                 /\ Ok(e.meta) \in LookupOutcomes(toLookup[e.version])

\* two records with one revision and different import paths gave one entry,
\* beside the entry of another revision
C7_Witness ==
    /\ GDone /\ gret.err = NilErr
    /\ Len(gret.packages) = 2
    /\ \E j, k \in Named :
          deps[j].Rev = deps[k].Rev /\ deps[j].ImportPath # deps[k].ImportPath

\* C8: a manifest with a record that names an import path and has no revision
\* makes parseGodeps return an error without any call of the resolver; a
\* record without import path is ignored, also when it has no revision: it
\* causes no error, no lookup and no pinnedPackage.
C8_UnpinnedIsFatalUnnamedIsIgnored ==
    /\ (validJSON /\ HasUnpinned) =>
          /\ lookups = {} /\ packages = <<>>
          /\ \A r \in Revs : task[r] = "none"
          /\ GDone =>
                /\ gret.packages = <<>>
                /\ gret.err.msg = "didn't have an associated ref"
                /\ \E k \in Named : deps[k].Rev = NoRev /\ gret.err.pkg = deps[k].ImportPath
    /\ (validJSON /\ ~HasUnpinned /\ GDone) => gret.err.msg # "didn't have an associated ref"
    /\ NoPath \notin lookups
    /\ lookups \subseteq {deps[k].ImportPath : k \in Named}
    /\ Versions(packages) \subseteq NamedRevs
    /\ LookupRevs \subseteq NamedRevs

\* a manifest with an unpinned import path, after a pinned one, was refused
C8_Witness ==
    /\ GDone /\ HasUnpinned /\ gret.err.msg = "didn't have an associated ref"
    /\ LookupRevs # {}
    /\ lookups = {}

\* a record with neither import path nor revision was ignored and the parse succeeded
C8_WitnessIgnored ==
    /\ GDone /\ gret.err = NilErr /\ Len(gret.packages) = 1
    /\ \E k \in 1..Len(deps) : deps[k].ImportPath = NoPath /\ deps[k].Rev = NoRev

\* C9: when a resolution fails, parseGodeps returns the error of the first
\* task that returned one, the ctx handed to the resolutions is cancelled from
\* then on, and parseGodeps returns only after every started task has finished.
C9_FirstErrorCancelsAndWaits ==
    /\ errOrder # <<>> =>
          /\ gctxDone
          /\ groupErr = LookupErrOf(errOrder[1])
          /\ GDone => gret.err = LookupErrOf(errOrder[1])
    /\ \A r \in Revs : (task[r] = "failed") <=> (\E i \in 1..Len(errOrder) : errOrder[i] = r)
    /\ (GDone /\ validJSON /\ ~HasUnpinned) =>
          /\ \A r \in LookupRevs : task[r] \in {"ok", "failed"}
          /\ (errOrder = <<>>) <=> (gret.err = NilErr)

\* two resolutions failed and parseGodeps returned the error of the first
C9_Witness ==
    /\ GDone /\ Len(errOrder) = 2
    /\ toLookup[errOrder[1]] # toLookup[errOrder[2]]
    /\ gret.err = LookupErrOf(errOrder[1])

\* C10, as stated: no two returned pinnedPackages have the same meta.Root.
C10_OnePackagePerRoot ==
    GDone =>
        \A i, j \in 1..Len(gret.packages) :
            i # j => gret.packages[i].meta.Root # gret.packages[j].meta.Root

\* C10, amended: parseGodeps returns one pinnedPackage per distinct revision,
\* not per repository: no two returned pinnedPackages have the same version,
\* each carries the pkgMeta resolved for the import path kept for its version,
\* and two of them have the same meta.Root when the import paths kept for two
\* revisions resolve to one repository.
C10_OnePackagePerVersion ==
    GDone =>
        /\ \A i, j \in 1..Len(gret.packages) :
              i # j => gret.packages[i].version # gret.packages[j].version
        /\ \A i \in 1..Len(gret.packages) :
              /\ gret.packages[i].version \in LookupRevs
              /\ Ok(gret.packages[i].meta) = tres[gret.packages[i].version]
        /\ Len(gret.packages) <= Cardinality(NamedRevs)

\* two returned pinnedPackages have the same Root and different versions
C10_Witness ==
    /\ GDone /\ gret.err = NilErr
    /\ \E i, j \in 1..Len(gret.packages) :
          /\ i # j
          /\ gret.packages[i].meta.Root = gret.packages[j].meta.Root
          /\ gret.packages[i].version # gret.packages[j].version

----------------------------------------------------------------------------
(* The repository cache's and goGet's claims, checked under SpecGoGet *)

CStarted(g) == cpc[g] \notin {"idle", "off"}

\* the call is between its lock.Lock and the return of its closer.Close()
InFn(g) == cpc[g] \in {"open", "get", "checkout", "update", "recheckout", "copy", "fn", "close"}

OpIdx(g, op) == {i \in 1..Len(ops[g]) : ops[g][i][1] = op}

HasOp(g, op, out) == \E i \in 1..Len(ops[g]) : ops[g][i] = <<op, out>>

\* the two calls were in progress at the same time
COverlap(g, h) ==
    /\ g # h /\ CStarted(g) /\ CStarted(h)
    /\ g \notin cBefore[h] /\ h \notin cBefore[g]

\* C11: per cache name at most one callback of cache.dir / cache.file is
\* running at a time, and a callback runs only while its caller holds the lock
\* of the name: the clone, checkout, pull and copy of two goGet calls for one
\* remote are never in progress together.
C11_OneCallbackPerKey ==
    /\ \A g \in Gets : InFn(g) => lockHolder[cname[g]] = g
    /\ \A g, h \in Gets : (g # h /\ InFn(g) /\ InFn(h)) => cname[g] # cname[h]
    /\ \A g \in Gets :
          (\E op \in {"newRepo", "checkLocal", "clone", "checkout", "pull", "copy", "fn"} :
               OpIdx(g, op) # {}) => HasOp(g, "lock", "ok")

\* a goGet call waits for the lock while another, for the same name, is past its clone
C11_Witness ==
    \E g, h \in Gets :
        /\ g # h /\ ckind[g] = "goGet" /\ ckind[h] = "goGet" /\ cname[g] = cname[h]
        /\ cpc[g] = "lock" /\ cpc[h] = "checkout" /\ HasOp(h, "clone", "ok")

\* C12: the lock is released on every return of the callback, with or without
\* an error: a call that has returned holds no lock, a lock is only held by a
\* call that is in its callback, and a call that starts after another returned
\* is never kept waiting by it.
C12_LockReleasedOnReturn ==
    /\ \A n \in CacheNames :
          lockHolder[n] # 0 => (InFn(lockHolder[n]) /\ cname[lockHolder[n]] = n)
    /\ \A g \in Gets : cpc[g] = "done" => \A n \in CacheNames : lockHolder[n] # g
    /\ \A h \in Gets : cpc[h] = "lock" => lockHolder[cname[h]] \notin cBefore[h]
    /\ \A h \in Gets :
          (cpc[h] = "lock" /\ (\A g \in Gets \ {h} : g \in cBefore[h] \/ ~CStarted(g))) =>
              LockFree(cname[h])

\* after a call whose callback returned an error, a following call on the same
\* name has taken the lock and run its callback
C12_Witness ==
    \E g, h \in Gets :
        /\ g \in cBefore[h] /\ cname[g] = cname[h]
        /\ HasOp(g, "lock", "ok") /\ cerr[g] # ""
        /\ HasOp(h, "lock", "ok") /\ cpc[h] = "done" /\ cerr[h] = ""

\* C13, as stated: two concurrent calls of cache.dir for one name, also when
\* the directory does not exist yet, both run their callback, and neither
\* fails because of the other.
C13_ConcurrentDirCallsBothRun ==
    \A g \in Gets :
        (ckind[g] = "goGet" /\ cver[g] # "" /\ cpc[g] = "done") =>
            /\ HasOp(g, "lock", "ok")
            /\ cerr[g] # "cache creating directory"

\* C14: goGet with an empty version returns the precondition error and nothing
\* else happens: no stat, no mkdir, no lock, no operation on the repository, no
\* copy; its destination is as it was.
C14_EmptyVersionTouchesNothing ==
    /\ \A g \in Gets :
          (CStarted(g) /\ ckind[g] = "goGet" /\ cver[g] = "") =>
              /\ cpc[g] = "done"
              /\ cerr[g] = "no version specified to checkout"
              /\ ops[g] = <<>>
              /\ dest[g] = {}
              /\ \A n \in CacheNames : lockHolder[n] # g
    /\ (\A g \in Gets : CStarted(g) => (ckind[g] = "goGet" /\ cver[g] = "")) =>
          /\ dirs = {} /\ repoLocal = {}
          /\ \A n \in CacheNames : LockFree(n) /\ wcRev[n] = ""

\* two goGet calls with an empty version have returned the error
C14_Witness ==
    \A g \in Gets :
        /\ ckind[g] = "goGet" /\ cver[g] = "" /\ cpc[g] = "done"
        /\ cerr[g] = "no version specified to checkout"

\* C15: in one goGet call a clone is made only when CheckLocal found no local
\* copy, and a failed clone ends the call; the checkout is tried at most twice
\* and the pull made at most once, right after a failed first checkout; a
\* failed pull and a failed second checkout end the call with their error.
C15_CloneCheckoutPullOrder ==
    \A g \in Gets :
        LET s == ops[g]
            ended(i, msg) == i = Len(s) /\ cerr[g] = msg /\ cpc[g] \in {"close", "done"}
        IN /\ Cardinality(OpIdx(g, "clone")) <= 1
           /\ Cardinality(OpIdx(g, "checkout")) <= 2
           /\ Cardinality(OpIdx(g, "pull")) <= 1
           /\ cpc[g] = "get" => cname[g] \notin repoLocal
           /\ \A i \in OpIdx(g, "clone") :
                 /\ i > 1 /\ s[i - 1] = <<"checkLocal", "no">>
                 /\ s[i][2] = "err" => ended(i, "cloning repo")
           /\ \A i \in OpIdx(g, "pull") :
                 /\ i > 1 /\ s[i - 1] = <<"checkout", "err">>
                 /\ OpIdx(g, "checkout") \cap (1..i) = {i - 1}
                 /\ s[i][2] = "err" => ended(i, "updating repo")
           /\ \A i, j \in OpIdx(g, "checkout") :
                 i < j =>
                    /\ j = i + 2 /\ s[i + 1] = <<"pull", "ok">>
                    /\ s[j][2] = "err" => ended(j, "updating repo to revision")
           /\ \A i \in OpIdx(g, "copy") :
                 /\ i > 1 /\ s[i - 1] = <<"checkout", "ok">>
                 /\ i = Len(s)

\* a call has cloned, failed its first checkout, pulled, checked out and copied
C15_Witness ==
    \E g \in Gets :
        /\ cpc[g] = "done" /\ cerr[g] = "" /\ Len(ops[g]) = 9
        /\ SubSeq(ops[g], 4, 9) = << <<"checkLocal", "no">>, <<"clone", "ok">>,
                                      <<"checkout", "err">>, <<"pull", "ok">>,
                                      <<"checkout", "ok">>, <<"copy", "ok">> >>

\* C16: goGet copies only after a checkout to the version succeeded in the
\* same call: when the copy is made the working copy is at the version, the
\* destination only ever receives files of the version, never of the HEAD a
\* clone or a pull left, and a call whose checkouts all failed copies nothing.
C16_CopyOnlyAfterCheckout ==
    \A g \in Gets :
        /\ dest[g] \subseteq {cver[g]}
        /\ HEAD \notin dest[g] /\ "" \notin dest[g]
        /\ cpc[g] = "copy" => wcRev[cname[g]] = cver[g]
        /\ (OpIdx(g, "copy") # {} \/ dest[g] # {}) => HasOp(g, "checkout", "ok")
        /\ ~HasOp(g, "checkout", "ok") => (dest[g] = {} /\ cpc[g] # "copy")

\* one call copied its version after its own clone and a pull, and another,
\* whose two checkouts failed on the working copy at HEAD, copied nothing
C16_Witness ==
    \E g, h \in Gets :
        /\ g # h /\ cname[g] = cname[h] /\ cver[g] # cver[h]
        /\ HasOp(g, "clone", "ok") /\ HasOp(g, "pull", "ok") /\ dest[g] = {cver[g]}
        /\ cpc[h] = "done" /\ cerr[h] = "updating repo to revision" /\ dest[h] = {}
        /\ wcRev[cname[h]] = HEAD

----------------------------------------------------------------------------
(* cacheKey's claim, checked under SpecKey *)

\* C20: cacheKey maps character by character: an ASCII letter or digit is
\* kept, any other character becomes one "-", so the key has the length of the
\* remote and is made of letters, digits and "-"; the remote
\* https://github.com/camlistore/go4 gives https---github-com-camlistore-go4.
C20_CacheKeyCharByChar ==
    kpc = "done" =>
        /\ Len(kkey) = Len(kremote)
        /\ \A i \in 1..Len(kremote) :
              LET ch == Char(kremote, i)
              IN IF ch \in Upper \cup Lower \cup Digits
                 THEN Char(kkey, i) = ch
                 ELSE Char(kkey, i) = "-"
        /\ \A i \in 1..Len(kkey) : Char(kkey, i) \in Upper \cup Lower \cup Digits \cup {"-"}
        /\ kremote = "https://github.com/camlistore/go4" =>
              kkey = "https---github-com-camlistore-go4"

\* the first remote of TestCacheKey has been mapped to its key
C20_Witness ==
    /\ kpc = "done"
    /\ kremote = "https://github.com/camlistore/go4"
    /\ kkey = "https---github-com-camlistore-go4"

----------------------------------------------------------------------------
(* copyDir's claims, checked under SpecCopy *)

\* a directory name the copy leaves out
IgnoredDirName(n) == n \in {"testdata", "vendor"} \/ Char(n, 1) \in {".", "_"}

\* the paths a call of copyDir, or the one before it, created in the destination
Made == wmade \cup wmade1

\* the entries of the source that copyDir copies: not ignored, and below no
\* ignored directory
Copied ==
    {p \in PathsOf(srcTree) :
        /\ \A i \in 1..(Len(p) - 1) : ~ignoreDir(p[i])
        /\ IF KindOf(p) = "dir" THEN ~ignoreDir(Name(p)) ELSE ~ignoreFile(Name(p))}

\* C17: copyDir never creates in the destination a directory named testdata
\* or vendor or whose name starts with "." or "_", nor a file or directory
\* that is below such a directory in the source.
C17_IgnoredDirsNeverCreated ==
    /\ Made \subseteq PathsOf(srcTree)
    /\ \A p \in Made :
          /\ KindOf(p) = "dir" => ~IgnoredDirName(Name(p))
          /\ \A i \in 1..(Len(p) - 1) : ~IgnoredDirName(p[i])
    /\ \A e \in dst : e[3] # "old" => e[1] \in Made

\* a copy has ended without error: it made a directory and the file in it, and
\* left out an ignored directory of the source that holds a Go file
C17_Witness ==
    /\ wpc = "done" /\ werr = "" /\ wrun = 1
    /\ \E d \in DirsOf(srcTree) :
          /\ IgnoredDirName(Name(d)) /\ d \notin DstPaths
          /\ \E p \in PathsOf(srcTree) : IsBelow(p, d) /\ Name(p) = "hi.go" /\ p \notin DstPaths
    /\ \E p \in Made : KindOf(p) = "dir"

\* C19: copyDir never overwrites: what the destination held when the call
\* started is still there unchanged, a call that finds an entry it would
\* create fails, and so does a second call into the destination of a first
\* call that created an entry.
C19_NeverOverwrites ==
    /\ dst0 \subseteq dst
    /\ Cardinality(DstPaths) = Cardinality(dst)
    /\ wmade \cap {e[1] : e \in dst0} = {}
    /\ (wpc = "done" /\ Copied \cap {e[1] : e \in dst0} # {}) => werr # ""
    /\ (wpc = "done" /\ wrun = 2 /\ wmade1 # {}) => (werr # "" /\ wmade = {})

\* a first call created an entry and then failed on an old file of the
\* destination; the second call failed and the old file is as it was
C19_Witness ==
    /\ wpc = "done" /\ wrun = 2 /\ werr # "" /\ wmade1 # {}
    /\ \E e \in dst : e[3] = "old" /\ e[2] = "file" /\ e[1] \in Copied

----------------------------------------------------------------------------
(* ignoreFile's claim, checked under SpecIgnore *)

ManifestNames == {"godeps.json", "glide.yaml"}

\* the lowercased name starts or holds one of the words of a legal file
LooksLegal(n) ==
    \/ \E w \in {"licence", "license", "copying", "unlicense", "copyright", "copyleft"} :
           StrHasPrefix(ToLower(n), w)
    \/ \E w \in {"legal", "notice", "disclaimer", "patent", "third-party", "thirdparty"} :
           StrContains(ToLower(n), w)

Included(n) ==
    \/ ToLower(n) \in ManifestNames
    \/ Ext(n) \in {".s", ".c"}
    \/ Ext(n) = ".go" /\ ~StrHasSuffix(n, "_test.go")
    \/ Ext(n) \notin {".s", ".c", ".go"} /\ LooksLegal(n)

\* C18: ignoreFile keeps a file exactly when its name is a manifest name
\* whatever the case, or its extension is .s or .c, or its extension is .go
\* and the name does not end in _test.go, or its extension is another one and
\* the name looks like a legal file; a name that ends in _test.go is always
\* left out, and the names of TestIgnoreFile get the results of the test.
C18_IgnoreFileOrder ==
    ipc = "done" =>
        /\ iskip <=> ~Included(iname)
        /\ StrHasSuffix(iname, "_test.go") => iskip
        /\ iname \in {"asm_darwin_386.s", "gccgo_c.c", "errors.go", "LICENSE", "LICENSE.txt"}
              => ~iskip
        /\ iname \in {"errors.py", "errors_test.go"} => iskip

\* a test file whose name looks like a legal file has been left out
C18_Witness ==
    /\ ipc = "done"
    /\ iname = "LICENSE_test.go"
    /\ LooksLegal(iname)
    /\ iskip

----------------------------------------------------------------------------
(* copyDir's tree, checked under SpecCopy *)

\* an entry of the source that is not excluded by its own name
NotExcluded(e) ==
    IF e[2] = "dir" THEN ~IgnoredDirName(Name(e[1])) ELSE Included(Name(e[1]))

\* the entries of the source that are not excluded and are below no excluded
\* directory
Kept ==
    {e \in srcTree :
        /\ NotExcluded(e)
        /\ \A i \in 1..(Len(e[1]) - 1) : ~IgnoredDirName(e[1][i])}

\* C30: a call of copyDir into an empty destination succeeds, and when it
\* returns the destination holds exactly the entries of the source that are
\* not excluded and have no excluded directory above them, the empty
\* directories among them too; every step creates an entry whose parent
\* directory is in the destination already, so Mkdir and the file creation
\* never fail for a missing parent.
C30_CopiedTreeIsKeptTree ==
    [][(wrun = 1 /\ dst0 = {}) =>
          /\ werr' = ""
          /\ \A e \in dst' \ dst :
                /\ Parent(e[1]) \in DstDirs
                /\ <<e[1], e[2]>> \in Kept
                /\ e[3] = (IF e[2] = "dir" THEN "" ELSE "copy")
          /\ dst \subseteq dst'
          /\ wpc' = "done" => {<<e[1], e[2]>> : e \in dst'} = Kept]_vars

\* a copy into an empty destination has returned without error: it made a
\* directory that is empty in the source, below a directory it made before,
\* and left out an excluded entry of the source
C30_Witness ==
    /\ wpc = "done" /\ werr = "" /\ wrun = 1 /\ dst0 = {}
    /\ \E d \in DstPaths :
          /\ Len(d) = 2 /\ KindOf(d) = "dir"
          /\ \A p \in PathsOf(srcTree) : ~IsBelow(p, d)
          /\ <<Parent(d), "dir", "">> \in dst
    /\ \E e \in srcTree : e \notin Kept /\ e[1] \notin DstPaths

----------------------------------------------------------------------------
(* parseImportMeta's claim, checked under SpecParse *)

\* the head end tag or a body start tag
IsBoundary(t) ==
    \/ t.kind = "start" /\ EqualFold(t.name, "body")
    \/ t.kind = "end" /\ EqualFold(t.name, "head")

\* a meta element whose name attribute is the discovery marker
IsMarker(t) ==
    t.kind = "start" /\ EqualFold(t.name, "meta") /\ attrValue(t.attr, "name") = "go-import"

ContentFields(t) == Fields(attrValue(t.attr, "content"))

\* the place of the first boundary of a page, past its end when it has none
BoundaryAt(toks) ==
    LET bs == {i \in 1..Len(toks) : IsBoundary(toks[i])}
    IN IF bs = {} THEN Len(toks) + 1 ELSE CHOOSE i \in bs : \A j \in bs : i <= j

Least(S) == CHOOSE i \in S : \A j \in S : i <= j

\* the places before the boundary of the marker elements, and of those with
\* exactly three fields
MarkersBefore(toks) == {i \in 1..(BoundaryAt(toks) - 1) : IsMarker(toks[i])}
QualifyingBefore(toks) == {i \in MarkersBefore(toks) : Len(ContentFields(toks[i])) = 3}

MetaOfFields(f) == [Root |-> f[1], VCS |-> f[2], Remote |-> f[3]]

\* C21, as stated: parseImportMeta returns the first three fields of the
\* content of the first marker element before the boundary, and the "no
\* metadata found" error when the boundary or the end of the input comes
\* before every marker element.
C21_FirstMarkerElementWins ==
    fpc = "done" =>
        LET toks == farg.toks
            ms == MarkersBefore(toks)
        IN IF ms # {}
           THEN Len(ContentFields(toks[Least(ms)])) >= 3 =>
                    fres = OkStr(MetaOfFields(ContentFields(toks[Least(ms)])))
           ELSE (BoundaryAt(toks) <= Len(toks) \/ farg.end = "EOF") => fres = ErrStr(NoMetaErr)

\* C21, amended: parseImportMeta returns the three fields of the content of
\* the first marker element before the boundary whose content has exactly
\* three fields; marker elements with another number of fields are passed
\* over. When the boundary or the end of the input comes before such an
\* element it fails with the "no metadata found" error, and when the decoder
\* fails first, with the decoder's error; nothing after the boundary is used.
C21_FirstThreeFieldMarkerWins ==
    fpc = "done" =>
        LET toks == farg.toks
            qs == QualifyingBefore(toks)
        IN /\ IF qs # {}
              THEN fres = OkStr(MetaOfFields(ContentFields(toks[Least(qs)])))
              ELSE IF BoundaryAt(toks) <= Len(toks) \/ farg.end = "EOF"
              THEN fres = ErrStr(NoMetaErr)
              ELSE fres = ErrStr(DecodeErr)
           /\ fres = parseImportMeta(SubSeq(toks, 1, BoundaryAt(toks) - 1),
                                     IF BoundaryAt(toks) <= Len(toks) THEN "EOF" ELSE farg.end)

\* a page whose first marker element has four fields and whose second has
\* three gave the fields of the second; the marker element after the head end
\* tag was not used
C21_Witness ==
    /\ fpc = "done"
    /\ Len(farg.toks) = 3
    /\ IsMarker(farg.toks[1]) /\ Len(ContentFields(farg.toks[1])) = 4
    /\ IsMarker(farg.toks[2]) /\ Len(ContentFields(farg.toks[2])) = 3
    /\ IsBoundary(farg.toks[3])
    /\ fres = OkStr([Root |-> "go4.org", VCS |-> "git",
                     Remote |-> "https://github.com/camlistore/go4"])

----------------------------------------------------------------------------
(* importMeta's claims, checked under SpecStatic *)

\* the templates whose pattern matches the path
Matching(p) == {i \in 1..Len(vcsList) : rootpkg(i, p) # 0}

\* the kind fixed in the source for each template, "" when it has none
TemplateKinds == <<"git", "", "bzr", "git", "git", "", "git", "svc", "", "">>

\* C22: importMeta returns the match of the first template of the list that
\* matches the path: Root is the captured root, which is a prefix of the path,
\* Remote is "https://" + Root and VCS is the kind of that template, empty when
\* it has none; it reports no match exactly when no template matches. So
\* github.com/miekg/dns/dnsutil gives github.com/miekg/dns with git, and
\* bitbucket.org/bertimus9/systemstat gives itself with no kind.
C22_FirstMatchingTemplateWins ==
    fpc = "done" =>
        /\ IF Matching(farg) = {}
           THEN fres = Err("no match")
           ELSE LET i == MinOf(Matching(farg))
                IN /\ IsOk(fres)
                   /\ fres.meta.Root = SubSeq(farg, 1, rootpkg(i, farg))
                   /\ fres.meta.Root = SubSeq(farg, 1, Len(fres.meta.Root))
                   /\ Len(fres.meta.Root) >= 2
                   /\ fres.meta.Remote = <<"https:", "">> \o fres.meta.Root
                   /\ fres.meta.VCS = TemplateKinds[i]
        /\ farg = <<"github.com", "spf13", "cobra">> =>
              fres = Ok([Root |-> farg, VCS |-> "git", Remote |-> <<"https:", "">> \o farg])
        /\ farg = <<"github.com", "miekg", "dns", "dnsutil">> =>
              fres = Ok([Root |-> <<"github.com", "miekg", "dns">>, VCS |-> "git",
                         Remote |-> <<"https:", "", "github.com", "miekg", "dns">>])
        /\ farg = <<"bitbucket.org", "bertimus9", "systemstat">> =>
              fres = Ok([Root |-> farg, VCS |-> "", Remote |-> <<"https:", "">> \o farg])

\* a path that the github.com template and the last, generic one both match
\* was given the kind of the github.com template; its Root is shorter than
\* the path
C22_Witness ==
    /\ fpc = "done"
    /\ Matching(farg) = {1, 10}
    /\ IsOk(fres) /\ fres.meta.VCS = "git"
    /\ Len(fres.meta.Root) < Len(farg)

\* C29, as stated: every pkgMeta of a static match has the VCS git, svn, bzr
\* or hg, or none.
C29_StaticKindsAreDrivers ==
    (fpc = "done" /\ IsOk(fres)) => fres.meta.VCS \in {"git", "svn", "bzr", "hg", ""}

----------------------------------------------------------------------------
(* loadImports' claim, checked under SpecLoad *)

\* the module path an import literal denotes
Unquote(v) == SubSeq(v, 2, Len(v) - 1)

RECURSIVE NonStdPaths(_)
NonStdPaths(values) ==
    IF values = <<>> THEN <<>>
    ELSE IF Unquote(Head(values)) \in goStdPackages
         THEN NonStdPaths(Tail(values))
         ELSE <<Unquote(Head(values))>> \o NonStdPaths(Tail(values))

\* C23, as stated: loadImports returns, in the order of the file, the module
\* paths the file imports that are not standard-library paths; for the file
\* that imports net, golang.org/x/net and golang.org/x/net/context it returns
\* golang.org/x/net and golang.org/x/net/context.
C23_StdImportsRemoved ==
    (fpc = "done" /\ farg.parses) =>
        /\ fres.err = ""
        /\ fres.imports = NonStdPaths(farg.values)
        /\ farg.values = <<Literal("net"), Literal("golang.org/x/net"),
                            Literal("golang.org/x/net/context")>> =>
              fres.imports = <<"golang.org/x/net", "golang.org/x/net/context">>

====
